---- MODULE Spec2Model ----
(***************************************************************************)
(* Model of the NSDSP multirate wavelet decomposition service pool         *)
(* (Init_Wavelet_Decim, Suscribe_Wavelet_Decimator,                        *)
(* Unsuscribe_Wavelet_Decimator, Process_Wavelet_Decomposition) and of the *)
(* Lagrange half-band coefficient generator it uses.                       *)
(*                                                                         *)
(* float values are modelled as fixed-point numbers with FRAC_BITS         *)
(* fractional bits: the float 1.0f is the integer ONE.  With the Lagrange  *)
(* taps and the samples drawn here every product and sum of the first two  *)
(* levels is a dyadic rational that both float and this grid hold exactly. *)
(***************************************************************************)
EXTENDS Integers, Sequences, FiniteSets, TLC

(* ------------------------------ bounds --------------------------------- *)

\* number of slots of the pool (capacity of wavelet_services[])
MAX_WAVELET_SERVICES == 2

\* largest level count subscribe accepts (capacity of levels[])
MAX_DECOMP_LEVELS == 2

\* capacity of h0[], h1[] and of every delay line
MAX_FILTER_ORDER == 11

\* fractional bits of the fixed-point grid that stands for float
FRAC_BITS == 10

\* successful calls explored in one run of the pool
MaxCalls == 5

\* successful calls explored in one run of a single pipeline
MaxStreamCalls == 8

\* successful calls explored in one run of the impulse scenario
MaxImpulseCalls == 14

\* largest m lagrange_halfband is called with
MaxLagrangeM == 3

\* lagrange_halfband calls on one buffer
MaxLagrangeCalls == 3

\* largest ncoef of the FIR filter
MaxFirCoef == 3

\* fir_filter calls on one object
MaxFirCalls == 5

\* successful calls explored where all five pool entry points interleave
MaxInfoCalls == 3

\* FIR_FILTER_OBJECTs that share one coefficient array
MaxFirInstances == 2

\* calls on the FIR_FILTER_OBJECTs that share one coefficient array
MaxBankCalls == 4

\* RT_Momentos services (rt_momentos.h has 4)
MAX_RT_MOMENTOS == 2

\* cells of each moving-average buffer (rt_momentos.h has 64)
N_MA == 2

\* calls on the RT_Momentos services that change them
MaxRtCalls == 7

\* successful calls on the slot that is given out again
MaxStaleCalls == 7

(* ----------------------------- constants ------------------------------- *)

WAVELET_DECIM_OK == 0

WAVELET_DECIM_KO == 0 - 1

LAGRANGE_OK == 0

LAGRANGE_KO == 0 - 1

\* largest Lagrange parameter subscribe accepts
LAGRANGE_M_MAX == 16

\* Lagrange parameter of the static DWT build
LAGRANGE_M == 3

\* number of levels of the static DWT build
WAVELET_LEVELS == 2

\* taps of the static DWT's two filters (LAGRANGE build)
BUFFER_SIZE == 4 * LAGRANGE_M - 1

\* longest FIR filter fir_filter accepts
MAX_FIR_LENGTH == 128

\* unsigned int arithmetic, for the 16 bits dwt.h counts on
UIntWrap(x) == x % 65536

ONE == 2 ^ FRAC_BITS

\* a decimal constant of the source, given in units of 10^-5, as a float
FromDecimal(u) == (u * ONE) \div 100000

FMul(a, b) == (a * b) \div ONE

Slots == 0 .. (MAX_WAVELET_SERVICES - 1)

Levels == 0 .. (MAX_DECOMP_LEVELS - 1)

Taps == 0 .. (MAX_FILTER_ORDER - 1)

FilterTypes == {"WAVELET_LAGRANGE", "WAVELET_DB4", "WAVELET_DB8"}

VARIABLES
    wavelet_services,   \* the slot table
    output,             \* the caller's WAVELET_OUTPUT structure
    ret,                \* return value of the last call
    call,               \* the last call: function and handle argument
    hist,               \* per slot, detail_ready[] of its latest process calls
    ncalls,             \* successful calls so far
    handles,            \* handles[] of Test_Wavelet_Service_Reservation
    info,               \* the caller's type, levels, num_coeffs of get_info
    solo,               \* per slot, its calls replayed on a pool of its own
    dwt,                \* the DWT_OBJECT of the static variant
    dwt_obs,            \* Dwt calls since Get_DWT, what the last one did
    collected,          \* outputs the impulse scenario collected at readiness
    lag,                \* the last lagrange_halfband call and the caller's buffer
    fir,                \* a FIR_FILTER_OBJECT, its arrays and the samples fed to it
    bank,               \* FIR_FILTER_OBJECTs on one coefficient array, the last call
    rt,                 \* the RT_Momentos services, the cursor of subscribe, the last call
    ann,                \* the layer buffer of the ANN module, the callers' services
    fact                \* the two factorials of one turn of the loop of lagrange_halfband

\* the state of the decomposition pool and of its callers
poolvars == <<wavelet_services, output, ret, call, hist, ncalls, handles>>

\* the state outside the pool's three main entry points
\* the state of the stand-alone units: lagrange_halfband and the FIR filter
units == <<lag, fir, bank, rt, ann, fact>>

others == <<info, solo, dwt, dwt_obs, collected, units>>

vars == <<poolvars, others>>

(* ------------------------- coefficient tables -------------------------- *)

WAVELET_DB4_H0 ==
    [k \in 0 .. 3 |->
        FromDecimal(<<48296, 83652, 22414, 0 - 12941>>[k + 1])]

WAVELET_DB8_H0 ==
    [k \in 0 .. 7 |->
        FromDecimal(<<23038, 71485, 63088, 0 - 2798,
                      0 - 18703, 3084, 3288, 0 - 1060>>[k + 1])]

(* ------------------------- lagrange_halfband --------------------------- *)

RECURSIVE factorial(_)
factorial(n) ==
    IF n < 0 THEN 0
    ELSE IF n < 2 THEN 1
    ELSE n * factorial(n - 1)

RECURSIVE Productorio(_, _, _)
Productorio(m, k, acc) ==
    IF k > 2 * m THEN acc
    ELSE Productorio(m, k + 1, FMul(acc, (m - k) * ONE + ONE \div 2))

LagrangeSign(l, m) == IF (l + m - 1) % 2 = 0 THEN 1 ELSE 0 - 1

LagrangeHm(l, m) ==
    (LagrangeSign(l, m) * Productorio(m, 1, ONE))
        \div (factorial(m - l) * factorial(m - 1 + l) * (2 * l - 1))

\* the one-sided loop: only the tap above the centre is assigned
RECURSIVE LagrangeAssign_onesided(_, _, _)
LagrangeAssign_onesided(m, l, h0) ==
    IF l > m THEN h0
    ELSE LET orden == 4 * m - 1
             center_index == 2 * m - 1
             hm == LagrangeHm(l, m)
             pos_index == center_index + (2 * l - 1)
             h0p == IF pos_index < orden
                    THEN [h0 EXCEPT ![pos_index] = hm] ELSE h0
         IN LagrangeAssign_onesided(m, l + 1, h0p)

RECURSIVE LagrangeAssign(_, _, _)
LagrangeAssign(m, l, h0) ==
    IF l > m THEN h0
    ELSE LET orden == 4 * m - 1
             center_index == 2 * m - 1
             hm == LagrangeHm(l, m)
             pos_index == center_index + (2 * l - 1)
             neg_index == center_index - (2 * l - 1)
             h0p == IF pos_index < orden
                    THEN [h0 EXCEPT ![pos_index] = hm] ELSE h0
             h0n == IF neg_index >= 0
                    THEN [h0p EXCEPT ![neg_index] = hm] ELSE h0p
         IN LagrangeAssign(m, l + 1, h0n)

\* a NULL float pointer: an array of no cells
NullArray == << >>

\* the validation that tests the pointer only
lagrange_halfband_nofloor(m, h0) ==
    IF h0 = NullArray THEN [result |-> LAGRANGE_KO, h0 |-> h0]
    ELSE LET orden == 4 * m - 1
             center_index == 2 * m - 1
             zeroed == [k \in DOMAIN h0 |-> IF k < orden THEN 0 ELSE h0[k]]
             centred == [zeroed EXCEPT ![center_index] = ONE \div 2]
         IN [result |-> LAGRANGE_OK, h0 |-> LagrangeAssign(m, 1, centred)]

\* h0 is the caller's array; the result is the return code and the array
lagrange_halfband(m, h0) ==
    IF m < 1 \/ h0 = NullArray THEN [result |-> LAGRANGE_KO, h0 |-> h0]
    ELSE LET orden == 4 * m - 1
             center_index == 2 * m - 1
             zeroed == [k \in DOMAIN h0 |-> IF k < orden THEN 0 ELSE h0[k]]
             centred == [zeroed EXCEPT ![center_index] = ONE \div 2]
         IN [result |-> LAGRANGE_OK, h0 |-> LagrangeAssign(m, 1, centred)]

(* ------------------------ coefficient set-up --------------------------- *)

Get_Wavelet_Daubechies4_Coeffs(h0, h1) ==
    LET nh0 == [k \in DOMAIN h0 |-> IF k < 4 THEN WAVELET_DB4_H0[k] ELSE h0[k]]
        nh1 == [k \in DOMAIN h1 |->
                   IF k < 4
                   THEN (IF k % 2 = 0 THEN 1 ELSE 0 - 1) * nh0[3 - k]
                   ELSE h1[k]]
    IN [h0 |-> nh0, h1 |-> nh1]

Get_Wavelet_Daubechies8_Coeffs(h0, h1) ==
    LET nh0 == [k \in DOMAIN h0 |-> IF k < 8 THEN WAVELET_DB8_H0[k] ELSE h0[k]]
        nh1 == [k \in DOMAIN h1 |->
                   IF k < 8
                   THEN (IF k % 2 = 0 THEN 1 ELSE 0 - 1) * nh0[7 - k]
                   ELSE h1[k]]
    IN [h0 |-> nh0, h1 |-> nh1]

\* sign of h1[i] in the Lagrange branch: starts at -1 for even L, +1 for odd L
LagrangeSigno(L, i) ==
    LET start == IF L % 2 = 0 THEN 0 - 1 ELSE 1
    IN IF i % 2 = 0 THEN start ELSE 0 - start

Initialize_Wavelet_Coeffs(service, type, m) ==
    CASE type = "WAVELET_LAGRANGE" ->
            LET s1 == [service EXCEPT !.filter_order = 4 * m - 2,
                                      !.num_coeffs = 4 * m - 1]
                lg == lagrange_halfband(m, s1.h0)
                L == s1.num_coeffs
                nh1 == [i \in DOMAIN s1.h1 |->
                           IF i < L
                           THEN LagrangeSigno(L, i) * lg.h0[L - 1 - i]
                           ELSE s1.h1[i]]
            IN IF lg.result # LAGRANGE_OK
               THEN [result |-> WAVELET_DECIM_KO,
                     service |-> [s1 EXCEPT !.h0 = lg.h0]]
               ELSE [result |-> WAVELET_DECIM_OK,
                     service |-> [s1 EXCEPT !.h0 = lg.h0, !.h1 = nh1]]
      [] type = "WAVELET_DB4" ->
            LET c == Get_Wavelet_Daubechies4_Coeffs(service.h0, service.h1)
            IN [result |-> WAVELET_DECIM_OK,
                service |-> [service EXCEPT !.filter_order = 3,
                                            !.num_coeffs = 4,
                                            !.h0 = c.h0, !.h1 = c.h1]]
      [] type = "WAVELET_DB8" ->
            LET c == Get_Wavelet_Daubechies8_Coeffs(service.h0, service.h1)
            IN [result |-> WAVELET_DECIM_OK,
                service |-> [service EXCEPT !.filter_order = 7,
                                            !.num_coeffs = 8,
                                            !.h0 = c.h0, !.h1 = c.h1]]
      [] OTHER -> [result |-> WAVELET_DECIM_KO, service |-> service]

(* --------------------------- Init_Wavelet_Decim ------------------------ *)

ZeroArray == [k \in Taps |-> 0]

ZeroBuffer == [buffer |-> ZeroArray, write_index |-> 0, buffer_size |-> 0]

ZeroLevel ==
    [sample_counter |-> 0, last_lowpass |-> 0, last_highpass |-> 0,
     lowpass_buffer |-> ZeroBuffer, highpass_buffer |-> ZeroBuffer]

Init_Wavelet_Decim ==
    [i \in Slots |->
        [status |-> "WD_FREE", filter |-> "WAVELET_LAGRANGE", m |-> 0,
         filter_order |-> 0, num_coeffs |-> 0, num_levels |-> 0,
         h0 |-> ZeroArray, h1 |-> ZeroArray,
         levels |-> [j \in Levels |-> ZeroLevel]]]

ZeroOutput ==
    [ready |-> 0, approximation |-> 0,
     detail |-> [l \in Levels |-> 0],
     detail_ready |-> [l \in Levels |-> 0]]

(* ---------------------- Suscribe_Wavelet_Decimator ---------------------- *)

\* mutant: a level count below 1 is not rejected
ValidSuscribeParams_nofloor(type, m, levels) ==
    /\ type \in FilterTypes
    /\ ~(type = "WAVELET_LAGRANGE" /\ (m < 1 \/ m > LAGRANGE_M_MAX))
    /\ ~(levels > MAX_DECOMP_LEVELS)

\* the three parameter checks at the top of Suscribe_Wavelet_Decimator
ValidSuscribeParams(type, m, levels) ==
    /\ type \in FilterTypes
    /\ ~(type = "WAVELET_LAGRANGE" /\ (m < 1 \/ m > LAGRANGE_M_MAX))
    /\ ~(levels < 1 \/ levels > MAX_DECOMP_LEVELS)

\* mutant: the scan does not look at the status
FindFreeService_first(services) == 0

\* mutant: the scan keeps the last WD_FREE index
FindFreeService_last(services) ==
    IF \E i \in Slots : services[i].status = "WD_FREE"
    THEN CHOOSE i \in Slots :
            /\ services[i].status = "WD_FREE"
            /\ \A j \in Slots : j > i => services[j].status # "WD_FREE"
    ELSE 0 - 1

\* the scan for a free slot: the first WD_FREE index, or -1
FindFreeService(services) ==
    IF \E i \in Slots : services[i].status = "WD_FREE"
    THEN CHOOSE i \in Slots :
            /\ services[i].status = "WD_FREE"
            /\ \A j \in Slots : j < i => services[j].status # "WD_FREE"
    ELSE 0 - 1

\* mutant: the write cursors are not rewound
ConfigureLevels_nocursor(service, levels) ==
    [service EXCEPT !.levels =
        [i \in Levels |->
            IF i < levels
            THEN [sample_counter |-> 0, last_lowpass |-> 0, last_highpass |-> 0,
                  lowpass_buffer |->
                     [buffer |-> ZeroArray,
                      write_index |-> service.levels[i].lowpass_buffer.write_index,
                      buffer_size |-> service.num_coeffs],
                  highpass_buffer |->
                     [buffer |-> ZeroArray,
                      write_index |-> service.levels[i].highpass_buffer.write_index,
                      buffer_size |-> service.num_coeffs]]
            ELSE service.levels[i]]]

\* mutant: the decimation counters start at 1
ConfigureLevels_counter1(service, levels) ==
    [service EXCEPT !.levels =
        [i \in Levels |->
            IF i < levels
            THEN [sample_counter |-> 1, last_lowpass |-> 0, last_highpass |-> 0,
                  lowpass_buffer |->
                     [buffer |-> ZeroArray, write_index |-> 0,
                      buffer_size |-> service.num_coeffs],
                  highpass_buffer |->
                     [buffer |-> ZeroArray, write_index |-> 0,
                      buffer_size |-> service.num_coeffs]]
            ELSE service.levels[i]]]

\* the per-level set-up loop: levels 0 .. levels-1 only
ConfigureLevels(service, levels) ==
    [service EXCEPT !.levels =
        [i \in Levels |->
            IF i < levels
            THEN [sample_counter |-> 0, last_lowpass |-> 0, last_highpass |-> 0,
                  lowpass_buffer |->
                     [buffer |-> ZeroArray, write_index |-> 0,
                      buffer_size |-> service.num_coeffs],
                  highpass_buffer |->
                     [buffer |-> ZeroArray, write_index |-> 0,
                      buffer_size |-> service.num_coeffs]]
            ELSE service.levels[i]]]

\* the result is the returned handle and the slot table after the call
Suscribe_Wavelet_Decimator(services, type, m, levels) ==
    IF ~ValidSuscribeParams(type, m, levels)
    THEN [ret |-> 0 - 1, services |-> services]
    ELSE LET handle == FindFreeService(services)
         IN IF handle = 0 - 1
            THEN [ret |-> 0 - 1, services |-> services]
            ELSE LET s1 == [services[handle] EXCEPT !.status = "WD_ASIGNED",
                                                    !.filter = type,
                                                    !.m = m,
                                                    !.num_levels = levels]
                     ic == Initialize_Wavelet_Coeffs(s1, type, m)
                 IN IF ic.result # WAVELET_DECIM_OK
                    THEN [ret |-> 0 - 1,
                          services |-> [services EXCEPT ![handle] =
                              [ic.service EXCEPT !.status = "WD_FREE"]]]
                    ELSE [ret |-> handle,
                          services |-> [services EXCEPT ![handle] =
                              ConfigureLevels(ic.service, levels)]]

(* --------------------- Unsuscribe_Wavelet_Decimator -------------------- *)

\* the release of a slot: write_index and buffer_size are not assigned
ReleaseService(service) ==
    [status |-> "WD_FREE", filter |-> "WAVELET_LAGRANGE", m |-> 0,
     filter_order |-> 0, num_coeffs |-> 0, num_levels |-> 0,
     h0 |-> ZeroArray, h1 |-> ZeroArray,
     levels |->
        [i \in Levels |->
            [sample_counter |-> 0, last_lowpass |-> 0, last_highpass |-> 0,
             lowpass_buffer |->
                [service.levels[i].lowpass_buffer EXCEPT !.buffer = ZeroArray],
             highpass_buffer |->
                [service.levels[i].highpass_buffer EXCEPT !.buffer = ZeroArray]]]]

\* mutant: the status of the slot is not checked
ValidHandle_nostatus(services, handle) ==
    ~(handle < 0 \/ handle >= MAX_WAVELET_SERVICES)

\* handle range check followed by the status check
ValidHandle(services, handle) ==
    /\ ~(handle < 0 \/ handle >= MAX_WAVELET_SERVICES)
    /\ services[handle].status = "WD_ASIGNED"

Unsuscribe_Wavelet_Decimator(services, handle) ==
    IF ~ValidHandle(services, handle)
    THEN [ret |-> WAVELET_DECIM_KO, services |-> services]
    ELSE [ret |-> WAVELET_DECIM_OK,
          services |-> [services EXCEPT ![handle] = ReleaseService(@)]]

(* -------------------- Process_Wavelet_Decomposition -------------------- *)

\* the write that moves the cursor on without folding it
Write_To_Wavelet_Buffer_nowrap(buffer, value) ==
    [buffer |-> [buffer.buffer EXCEPT ![buffer.write_index] = value],
     write_index |-> buffer.write_index + 1,
     buffer_size |-> buffer.buffer_size]

Write_To_Wavelet_Buffer(buffer, value) ==
    [buffer |-> [buffer.buffer EXCEPT ![buffer.write_index] = value],
     write_index |-> (buffer.write_index + 1) % buffer.buffer_size,
     buffer_size |-> buffer.buffer_size]

RECURSIVE ConvolutionSum(_, _, _, _)
ConvolutionSum(buffer, coeffs, num_coeffs, i) ==
    IF i >= num_coeffs THEN 0
    ELSE LET buf_idx == (buffer.write_index - 1 - i + buffer.buffer_size)
                            % buffer.buffer_size
         IN FMul(coeffs[i], buffer.buffer[buf_idx])
                + ConvolutionSum(buffer, coeffs, num_coeffs, i + 1)

Apply_Wavelet_Filter(buffer, coeffs, num_coeffs) ==
    ConvolutionSum(buffer, coeffs, num_coeffs, 0)

\* mutant: every level runs on every call
PreviousLevelProduced_always(previous) == TRUE

\* a level beyond the first runs only if the previous level produced output
PreviousLevelProduced(previous) == previous.sample_counter = 1

\* mutant: the outputs are kept on the other sample of each pair
DecimationKeeps_odd(sample_counter) == sample_counter = 1

\* decimation: the outputs are kept on one sample out of two
DecimationKeeps(sample_counter) == sample_counter = 0

\* the toggle of the decimation counter
NextSampleCounter(sample_counter) == (sample_counter + 1) % 2

\* mutant: every level is fed the raw sample
LevelInput_raw(service, level, input) == input

\* the value a level writes into its two delay lines
LevelInput(service, level, input) ==
    IF level = 0 THEN input ELSE service.levels[level - 1].last_lowpass

\* mutant: the deepest level is taken to be the last one of the array
IsLastLevel_capacity(service, level) == level = MAX_DECOMP_LEVELS - 1

\* the level whose low-pass output is the approximation
IsLastLevel(service, level) == level = service.num_levels - 1

\* one iteration of the level loop that was not left by break
ProcessLevel(service, out, level, input) ==
    LET lv == service.levels[level]
        current_input == LevelInput(service, level, input)
        lpb == Write_To_Wavelet_Buffer(lv.lowpass_buffer, current_input)
        hpb == Write_To_Wavelet_Buffer(lv.highpass_buffer, current_input)
        lowpass_out == Apply_Wavelet_Filter(lpb, service.h0, service.num_coeffs)
        highpass_out == Apply_Wavelet_Filter(hpb, service.h1, service.num_coeffs)
        keep == DecimationKeeps(lv.sample_counter)
        last == IsLastLevel(service, level)
        nlv == [sample_counter |-> NextSampleCounter(lv.sample_counter),
                last_lowpass |-> IF keep THEN lowpass_out ELSE lv.last_lowpass,
                last_highpass |-> IF keep THEN highpass_out ELSE lv.last_highpass,
                lowpass_buffer |-> lpb,
                highpass_buffer |-> hpb]
        nout == IF keep
                THEN [ready |-> IF last THEN 1 ELSE out.ready,
                      approximation |->
                          IF last THEN lowpass_out ELSE out.approximation,
                      detail |-> [out.detail EXCEPT ![level] = highpass_out],
                      detail_ready |-> [out.detail_ready EXCEPT ![level] = 1]]
                ELSE out
    IN [service |-> [service EXCEPT !.levels[level] = nlv], out |-> nout]

\* the level loop, from `level` on
RECURSIVE ProcessLevels(_, _, _, _)
ProcessLevels(service, out, level, input) ==
    IF level >= service.num_levels
    THEN [service |-> service, out |-> out]
    ELSE IF level > 0 /\ ~PreviousLevelProduced(service.levels[level - 1])
    THEN [service |-> service, out |-> out]
    ELSE LET r == ProcessLevel(service, out, level, input)
         IN ProcessLevels(r.service, r.out, level + 1, input)

\* mutant: the output pointer is not checked
ProcessArgsRejected_nonull(handle, out_null) ==
    handle < 0 \/ handle >= MAX_WAVELET_SERVICES

\* the first parameter check; out_null: the output pointer is NULL
ProcessArgsRejected(handle, out_null) ==
    handle < 0 \/ handle >= MAX_WAVELET_SERVICES \/ out_null

\* out: the caller's structure, left alone when the call fails
Process_Wavelet_Decomposition(services, handle, input, out_null, out) ==
    IF ProcessArgsRejected(handle, out_null)
    THEN [ret |-> WAVELET_DECIM_KO, services |-> services, out |-> out]
    ELSE IF services[handle].status # "WD_ASIGNED"
    THEN [ret |-> WAVELET_DECIM_KO, services |-> services, out |-> out]
    ELSE LET r == ProcessLevels(services[handle], ZeroOutput, 0, input)
         IN [ret |-> WAVELET_DECIM_OK,
             services |-> [services EXCEPT ![handle] = r.service],
             out |-> r.out]

(* ------------------- loop iterations of the entry points ---------------- *)

\* for (i = 2; i <= n; i++) of factorial
factorial_iterations(n) == IF n < 2 THEN 0 ELSE n - 1

\* the loop over l of lagrange_halfband, with the product loop and the two
\* factorials it runs on each pass
RECURSIVE LagrangeLoop_iterations(_, _)
LagrangeLoop_iterations(m, l) ==
    IF l > m THEN 0
    ELSE 1 + 2 * m + factorial_iterations(m - l)
           + factorial_iterations(m - 1 + l)
           + LagrangeLoop_iterations(m, l + 1)

lagrange_halfband_iterations(m) ==
    IF m < 1 THEN 0
    ELSE (4 * m - 1) + LagrangeLoop_iterations(m, 1)

Initialize_Wavelet_Coeffs_iterations(type, m) ==
    CASE type = "WAVELET_LAGRANGE" ->
            lagrange_halfband_iterations(m) + (IF m < 1 THEN 0 ELSE 4 * m - 1)
      [] type = "WAVELET_DB4" -> 4 + 4
      [] type = "WAVELET_DB8" -> 8 + 8
      [] OTHER -> 0

\* the scan for a free slot stops at the first one
RECURSIVE Scan_iterations(_, _)
Scan_iterations(services, i) ==
    IF i >= MAX_WAVELET_SERVICES THEN 0
    ELSE IF services[i].status = "WD_FREE" THEN 1
    ELSE 1 + Scan_iterations(services, i + 1)

Suscribe_Wavelet_Decimator_iterations(services, type, m, levels) ==
    IF ~ValidSuscribeParams(type, m, levels) THEN 0
    ELSE IF \A i \in Slots : services[i].status # "WD_FREE"
    THEN Scan_iterations(services, 0)
    ELSE Scan_iterations(services, 0)
         + Initialize_Wavelet_Coeffs_iterations(type, m)
         + levels * (1 + MAX_FILTER_ORDER)

Unsuscribe_Wavelet_Decimator_iterations(services, handle) ==
    IF ~ValidHandle(services, handle) THEN 0
    ELSE MAX_FILTER_ORDER + MAX_DECOMP_LEVELS * (1 + MAX_FILTER_ORDER)

\* a convolution loop that also visits the cell past the last coefficient
Apply_Wavelet_Filter_iterations_inclusive(num_coeffs) == num_coeffs + 1

\* for (i = 0; i < num_coeffs; i++) of Apply_Wavelet_Filter
Apply_Wavelet_Filter_iterations(num_coeffs) == num_coeffs

\* the loop over the levels of one process call: a pass that finds no new
\* input for its level is the last one; the counters are those before the call
RECURSIVE ProcessLevels_iterations(_, _)
ProcessLevels_iterations(service, level) ==
    IF level >= service.num_levels THEN 0
    ELSE IF level > 0 /\ service.levels[level - 1].sample_counter # 0 THEN 1
    ELSE 1 + 2 * Apply_Wavelet_Filter_iterations(service.num_coeffs)
           + ProcessLevels_iterations(service, level + 1)

Process_Wavelet_Decomposition_iterations(services, handle, out_null) ==
    IF ProcessArgsRejected(handle, out_null) THEN 0
    ELSE IF services[handle].status # "WD_ASIGNED" THEN 0
    ELSE MAX_DECOMP_LEVELS + ProcessLevels_iterations(services[handle], 0)

(* --------------- Get_Wavelet_Info, Reset_Wavelet_Buffers ---------------- *)

\* get_info that reports the filter order as the coefficient count
Get_Wavelet_Info_order(services, handle, nulls, inf) ==
    IF ~ValidHandle(services, handle)
    THEN [ret |-> WAVELET_DECIM_KO, info |-> inf]
    ELSE [ret |-> WAVELET_DECIM_OK,
          info |->
             [type |-> IF nulls[1] THEN inf.type ELSE services[handle].filter,
              levels |-> IF nulls[2] THEN inf.levels
                         ELSE services[handle].num_levels,
              num_coeffs |-> IF nulls[3] THEN inf.num_coeffs
                             ELSE services[handle].filter_order]]

\* nulls: which of the three output pointers are NULL; inf: what the caller's
\* three variables hold
Get_Wavelet_Info(services, handle, nulls, inf) ==
    IF ~ValidHandle(services, handle)
    THEN [ret |-> WAVELET_DECIM_KO, info |-> inf]
    ELSE [ret |-> WAVELET_DECIM_OK,
          info |->
             [type |-> IF nulls[1] THEN inf.type ELSE services[handle].filter,
              levels |-> IF nulls[2] THEN inf.levels
                         ELSE services[handle].num_levels,
              num_coeffs |-> IF nulls[3] THEN inf.num_coeffs
                             ELSE services[handle].num_coeffs]]

\* a reset that leaves the decimation counters
ResetLevels_nocounter(service) ==
    [service EXCEPT !.levels =
        [i \in Levels |->
            IF i < service.num_levels
            THEN [sample_counter |-> service.levels[i].sample_counter,
                  last_lowpass |-> 0, last_highpass |-> 0,
                  lowpass_buffer |->
                     [service.levels[i].lowpass_buffer
                        EXCEPT !.write_index = 0, !.buffer = ZeroArray],
                  highpass_buffer |->
                     [service.levels[i].highpass_buffer
                        EXCEPT !.write_index = 0, !.buffer = ZeroArray]]
            ELSE service.levels[i]]]

\* the reset loop: levels 0 .. num_levels-1 of one slot
ResetLevels(service) ==
    [service EXCEPT !.levels =
        [i \in Levels |->
            IF i < service.num_levels
            THEN [sample_counter |-> 0, last_lowpass |-> 0, last_highpass |-> 0,
                  lowpass_buffer |->
                     [service.levels[i].lowpass_buffer
                        EXCEPT !.write_index = 0, !.buffer = ZeroArray],
                  highpass_buffer |->
                     [service.levels[i].highpass_buffer
                        EXCEPT !.write_index = 0, !.buffer = ZeroArray]]
            ELSE service.levels[i]]]

\* mutant: the reset loop runs over every Assigned slot
ResetTargets_all(services, handle) ==
    {j \in Slots : services[j].status = "WD_ASIGNED"}

\* the slots Reset_Wavelet_Buffers writes
ResetTargets(services, handle) == {handle}

Reset_Wavelet_Buffers(services, handle) ==
    IF ~ValidHandle(services, handle)
    THEN [ret |-> WAVELET_DECIM_KO, services |-> services]
    ELSE [ret |-> WAVELET_DECIM_OK,
          services |->
             [j \in Slots |->
                 IF j \in ResetTargets(services, handle)
                 THEN ResetLevels(services[j]) ELSE services[j]]]

(* ------------------------- Get_Fir, fir_filter -------------------------- *)

\* A float array is known by an address <<name, index>>; mem maps the
\* addresses to the arrays.  A FIR_FILTER_OBJECT holds the addresses pcoef and
\* pz and, for p_write, the offset of the write cursor from pz.

\* a NULL float pointer, as an address
NullAddress == <<"NULL", 0>>

\* a NULL pointer to a FIR_FILTER_OBJECT
NullFir == << >>

\* the zero fill that stops one cell short
ZeroFill_short(z, ncoef) ==
    [k \in DOMAIN z |-> IF k < ncoef - 1 THEN 0 ELSE z[k]]

\* the zero fill of *pz: cells 0 .. ncoef-1
ZeroFill(z, ncoef) == [k \in DOMAIN z |-> IF k < ncoef THEN 0 ELSE z[k]]

\* the result is the object returned and the memory after the call; overrun:
\* the zero fill ran past the last cell of the array pz points to
Get_Fir(ncoef, pcoef, pz, mem) ==
    [objeto |-> [ncoef |-> ncoef, pcoef |-> pcoef, pz |-> pz, p_write |-> 0],
     mem |-> IF pz # NullAddress
             THEN [mem EXCEPT ![pz] = ZeroFill(@, ncoef)] ELSE mem,
     overrun |-> pz # NullAddress /\ \E k \in 0 .. (ncoef - 1) : k \notin DOMAIN mem[pz]]

\* the read pointer moving one up, from pmax - 1 to pmin
PreviousCell_up(pinit, N) == IF pinit + 1 = N THEN 0 ELSE pinit + 1

\* the cell the read pointer moves to: one down, from pmin to pmax - 1
PreviousCell(pinit, N) == IF pinit - 1 < 0 THEN N - 1 ELSE pinit - 1

\* the accumulation loop, from coefficient `index` on, reading cell pinit
RECURSIVE FirSum(_, _, _, _, _)
FirSum(coef, z, N, index, pinit) ==
    IF index >= N THEN 0
    ELSE FMul(coef[index], z[pinit])
            + FirSum(coef, z, N, index + 1, PreviousCell(pinit, N))

\* the cursor moving one down, from pz to pmax - 1
AdvanceWrite_down(p_write, ncoef) ==
    IF p_write = 0 THEN ncoef - 1 ELSE p_write - 1

\* the cursor after the write: one up, from pmax to pz
AdvanceWrite(p_write, ncoef) ==
    IF p_write + 1 = ncoef THEN 0 ELSE p_write + 1

\* fir_filter that stores the sample before it looks at ncoef
fir_filter_late(xn, pfir, mem) ==
    IF pfir = NullFir THEN [y |-> 0, pfir |-> pfir, mem |-> mem]
    ELSE LET N == pfir.ncoef
             pinit == pfir.p_write
             z == [mem[pfir.pz] EXCEPT ![pinit] = xn]
         IN [y |-> IF N > MAX_FIR_LENGTH THEN 0
                   ELSE FirSum(mem[pfir.pcoef], z, N, 0, pinit),
             pfir |-> [pfir EXCEPT !.p_write = AdvanceWrite(pinit, N)],
             mem |-> [mem EXCEPT ![pfir.pz] = z]]

\* fir_filter that walks the object's own coefficient pointer
fir_filter_pcoef(xn, pfir, mem) ==
    IF pfir = NullFir THEN [y |-> 0, pfir |-> pfir, mem |-> mem]
    ELSE IF pfir.ncoef > MAX_FIR_LENGTH
    THEN [y |-> 0, pfir |-> pfir, mem |-> mem]
    ELSE LET N == pfir.ncoef
             pinit == pfir.p_write
             z == [mem[pfir.pz] EXCEPT ![pinit] = xn]
         IN [y |-> FirSum(mem[pfir.pcoef], z, N, 0, pinit),
             pfir |-> [pfir EXCEPT !.p_write = AdvanceWrite(pinit, N),
                                   !.pcoef = <<pfir.pcoef[1], pfir.pcoef[2] + N>>],
             mem |-> [mem EXCEPT ![pfir.pz] = z]]

\* pfir is NullFir or an object with 1 <= ncoef; the result is the value
\* returned, the object and the memory after the call
fir_filter(xn, pfir, mem) ==
    IF pfir = NullFir THEN [y |-> 0, pfir |-> pfir, mem |-> mem]
    ELSE IF pfir.ncoef > MAX_FIR_LENGTH
    THEN [y |-> 0, pfir |-> pfir, mem |-> mem]
    ELSE LET N == pfir.ncoef
             pinit == pfir.p_write
             z == [mem[pfir.pz] EXCEPT ![pinit] = xn]
         IN [y |-> FirSum(mem[pfir.pcoef], z, N, 0, pinit),
             pfir |-> [pfir EXCEPT !.p_write = AdvanceWrite(pinit, N)],
             mem |-> [mem EXCEPT ![pfir.pz] = z]]

\* the cells of the delay line the accumulation loop reads, from coefficient
\* `index` on
RECURSIVE FirReads(_, _, _)
FirReads(N, index, pinit) ==
    IF index >= N THEN {}
    ELSE {pinit} \cup FirReads(N, index + 1, PreviousCell(pinit, N))

\* what one fir_filter call on an object it does not turn away touches: the
\* cell it writes, the cells and coefficients it reads, the cursor it leaves
FirAccesses(pfir) ==
    [write |-> {pfir.p_write},
     reads |-> FirReads(pfir.ncoef, 0, pfir.p_write),
     coefs |-> 0 .. (pfir.ncoef - 1),
     after |-> AdvanceWrite(pfir.p_write, pfir.ncoef)]

(* ----------------------------- Get_DWT, Dwt ----------------------------- *)

DwtLevels == 0 .. (WAVELET_LEVELS - 1)

DwtTaps == 0 .. (BUFFER_SIZE - 1)

\* the float arrays of a DWT_OBJECT
DwtAddresses ==
    {<<"lp_coef", 0>>, <<"hp_coef", 0>>}
        \cup {<<"lp_z", i>> : i \in DwtLevels}
        \cup {<<"hp_z", i>> : i \in DwtLevels}

\* sign of hp_coef[i]: starts at -1 for even BUFFER_SIZE, +1 for odd
DwtSigno(i) ==
    LET start == IF BUFFER_SIZE % 2 = 0 THEN 0 - 1 ELSE 1
    IN IF i % 2 = 0 THEN start ELSE 0 - start

\* the object Get_DWT leaves (LAGRANGE build); every field is assigned
Get_DWT ==
    LET lp_coef == lagrange_halfband(LAGRANGE_M, [k \in DwtTaps |-> 0]).h0
        hp_coef == [i \in DwtTaps |-> DwtSigno(i) * lp_coef[BUFFER_SIZE - 1 - i]]
        mem0 == [a \in DwtAddresses |->
                    IF a = <<"lp_coef", 0>> THEN lp_coef
                    ELSE IF a = <<"hp_coef", 0>> THEN hp_coef
                    ELSE [k \in DwtTaps |-> 0]]
    IN [mem |-> mem0,
        yltemp |-> [i \in DwtLevels |-> 0],
        yhtemp |-> [i \in DwtLevels |-> 0],
        yout |-> [i \in 0 .. WAVELET_LEVELS |-> 0],
        filtrolp |-> [i \in DwtLevels |->
            Get_Fir(BUFFER_SIZE, <<"lp_coef", 0>>, <<"lp_z", i>>, mem0).objeto],
        filtrohp |-> [i \in DwtLevels |->
            Get_Fir(BUFFER_SIZE, <<"hp_coef", 0>>, <<"hp_z", i>>, mem0).objeto],
        decimator |-> [i \in DwtLevels |-> 0],
        enabler |-> [i \in DwtLevels |-> 0]]

\* what a Dwt call did at each level, before its level loop
NothingDone ==
    [ran |-> [i \in DwtLevels |-> FALSE],
     commit |-> [i \in DwtLevels |-> FALSE]]

\* no Dwt call since Get_DWT; n: the calls made since
NoDwtCall == [n |-> 0, ran |-> NothingDone.ran, commit |-> NothingDone.commit]

\* mutant: the decimator is reloaded with the period of the enabler
DecimatorReload_enabler(i) == 2 ^ i

\* the value the decimator is reloaded with: 1 << (i+1)
DecimatorReload(i) == 2 ^ (i + 1)

\* mutant: the enabler is reloaded with the period of the decimator
EnablerReload_decimator(i) == 2 ^ (i + 1)

\* the value the enabler is reloaded with: 1 << i
EnablerReload(i) == 2 ^ i

\* one iteration of the level loop of Dwt; obs records what it did
DwtLevel(d, obs, i, xin) ==
    LET run == d.enabler[i] = 0
        xinput == IF i = 0 THEN xin ELSE d.yltemp[i - 1]
        hp == fir_filter(xinput, d.filtrohp[i], d.mem)
        lp == fir_filter(xinput, d.filtrolp[i], hp.mem)
        commit == run /\ d.decimator[i] = 0
        last == i = WAVELET_LEVELS - 1
        d1 == IF run
              THEN [d EXCEPT !.mem = lp.mem,
                             !.filtrohp[i] = hp.pfir,
                             !.filtrolp[i] = lp.pfir,
                             !.enabler[i] = EnablerReload(i)]
              ELSE d
        d2 == IF commit
              THEN [d1 EXCEPT !.yhtemp[i] = hp.y,
                              !.yltemp[i] = lp.y,
                              !.decimator[i] = DecimatorReload(i),
                              !.yout = IF last
                                       THEN [@ EXCEPT ![i] = hp.y, ![i + 1] = lp.y]
                                       ELSE [@ EXCEPT ![i] = hp.y]]
              ELSE d1
    IN [d |-> [d2 EXCEPT !.enabler[i] = UIntWrap(@ - 1),
                         !.decimator[i] = UIntWrap(@ - 1)],
        obs |-> [obs EXCEPT !.ran[i] = run, !.commit[i] = commit]]

\* the level loop of Dwt, from level i on
RECURSIVE DwtLoop(_, _, _, _)
DwtLoop(d, obs, i, xin) ==
    IF i >= WAVELET_LEVELS THEN [d |-> d, obs |-> obs]
    ELSE LET r == DwtLevel(d, obs, i, xin)
         IN DwtLoop(r.d, r.obs, i + 1, xin)

\* the object after Dwt(xin, &d), and what the call did at each level
Dwt(xin, d) == DwtLoop(d, NothingDone, 0, xin)

(* ------------------------------ the calls ------------------------------- *)

\* arguments the callers pass
SuscribeInputs ==
    ({"WAVELET_LAGRANGE"} \X {0, 1, 2, LAGRANGE_M_MAX + 1}
                          \X (0 .. MAX_DECOMP_LEVELS + 1))
    \cup ({"WAVELET_DB4", "WAVELET_DB8"} \X {0} \X (0 .. MAX_DECOMP_LEVELS + 1))
    \cup ({"WAVELET_UNKNOWN"} \X {1} \X {1})

ValidSuscribeInputs ==
    {a \in SuscribeInputs : ValidSuscribeParams(a[1], a[2], a[3])}

HandleInputs == (0 - 1) .. MAX_WAVELET_SERVICES

SampleInputs == {0, ONE}

\* the arguments drawn where calls on all slots interleave
PoolSuscribeInputs ==
    {a \in SuscribeInputs :
        /\ a[1] # "WAVELET_DB8"
        /\ a[2] # 2
        /\ a[1] = "WAVELET_DB4" => a[3] <= 1}

PoolSampleInputs == {ONE}

\* the window of process calls hist keeps per slot
HistLen == 2 ^ MAX_DECOMP_LEVELS

KeepLast(s, n) == IF Len(s) <= n THEN s ELSE SubSeq(s, Len(s) - n + 1, Len(s))

Succeeded(fn, r) == IF fn = "suscribe" THEN r # 0 - 1 ELSE r = WAVELET_DECIM_OK

\* no get_info call yet
NoInfo == [type |-> "none", levels |-> 0 - 1, num_coeffs |-> 0 - 1]

\* a slot of a pool of its own, before any call
SoloFresh == [service |-> Init_Wavelet_Decim[0], out |-> ZeroOutput]

\* the impulse scenario has collected no output
NothingCollected ==
    [detail |-> [i \in Levels |-> << >>], low0 |-> << >>, approximation |-> << >>]

\* the cells of the buffers lagrange_halfband is handed
LagrangeCells == 0 .. (4 * MaxLagrangeM - 2)

\* the caller's buffer before the first call: NULL, zeroed, or stale content
LagrangeBuffers ==
    {NullArray, [k \in LagrangeCells |-> 0], [k \in LagrangeCells |-> ONE]}

\* no lagrange_halfband call yet on the buffer b
LagFresh(b) ==
    [m |-> 0, before |-> b, h0 |-> b, result |-> LAGRANGE_OK, n |-> 0]

\* the float arrays of the FIR filter's caller
FirCells == 0 .. (MaxFirCoef - 1)

\* coefficient arrays of the FIR filter's caller: all taps different
FirCoefInputs ==
    {[k \in FirCells |-> (k + 1) * ONE],
     [k \in FirCells |-> ONE \div (2 ^ (k + 1))]}

\* what the delay line array holds before Get_Fir: zeroes or stale content
FirStaleInputs == {[k \in FirCells |-> 0], [k \in FirCells |-> ONE]}

\* no FIR_FILTER_OBJECT yet; z is the array Get_Fir will be handed
FirFresh(z) ==
    [created |-> FALSE,
     objeto |-> [ncoef |-> 0, pcoef |-> <<"coef", 0>>, pz |-> <<"z", 0>>,
                 p_write |-> 0],
     mem |-> (<<"coef", 0>> :> [k \in FirCells |-> 0]) @@ (<<"z", 0>> :> z),
     x |-> << >>, y |-> 0, written |-> 0 - 1]

\* an object no caller has declared yet
NoObject == << >>

\* no replayed pools, no DWT_OBJECT, no lagrange_halfband buffer, no FIR filter
OthersInit ==
    /\ info = NoInfo
    /\ solo = NoObject
    /\ dwt = NoObject
    /\ dwt_obs = NoDwtCall
    /\ collected = NothingCollected
    /\ lag = NoObject
    /\ fir = NoObject
    /\ bank = NoObject
    /\ rt = NoObject
    /\ ann = NoObject
    /\ fact = NoObject

PoolInit ==
    /\ wavelet_services = Init_Wavelet_Decim
    /\ output = ZeroOutput
    /\ ret = WAVELET_DECIM_OK
    /\ call = [fn |-> "init", handle |-> 0 - 1]
    /\ hist = [h \in Slots |-> << >>]
    /\ ncalls = 0
    /\ handles = << >>

Init ==
    /\ PoolInit
    /\ OthersInit

\* every slot has a pool of its own to replay its calls on
InitIndependence ==
    /\ PoolInit
    /\ info = NoInfo
    /\ solo = [h \in Slots |-> SoloFresh]
    /\ dwt = NoObject
    /\ dwt_obs = NoDwtCall
    /\ collected = NothingCollected
    /\ lag = NoObject
    /\ fir = NoObject
    /\ bank = NoObject
    /\ rt = NoObject
    /\ ann = NoObject
    /\ fact = NoObject

\* the state after Init_Wavelet_Decim and Get_DWT
InitStatic ==
    /\ PoolInit
    /\ info = NoInfo
    /\ solo = NoObject
    /\ dwt = Get_DWT
    /\ dwt_obs = NoDwtCall
    /\ collected = NothingCollected
    /\ lag = NoObject
    /\ fir = NoObject
    /\ bank = NoObject
    /\ rt = NoObject
    /\ ann = NoObject
    /\ fact = NoObject

\* the FIR_FILTER_OBJECTs that share one coefficient array
Instances == 0 .. (MaxFirInstances - 1)

\* no call yet on the FIR_FILTER_OBJECTs
NoBankCall == [fn |-> "none", who |-> 0 - 1, ncoef |-> 0, y |-> 0]

\* the callers' objects before any Get_Fir: one coefficient array coef, a
\* delay line array of content z for each object
BankFresh(coef, z) ==
    [objs |-> [i \in Instances |->
                 [ncoef |-> 0, pcoef |-> NullAddress, pz |-> NullAddress,
                  p_write |-> 0]],
     made |-> [i \in Instances |-> FALSE],
     mem |-> [a \in {<<"coef", 0>>} \cup {<<"z", i>> : i \in Instances} |->
                 IF a = <<"coef", 0>> THEN coef ELSE z],
     overrun |-> FALSE,
     last |-> NoBankCall,
     n |-> 0]

\* the coefficient array and the delay line arrays hold any of the inputs
InitBank ==
    /\ PoolInit
    /\ info = NoInfo
    /\ solo = NoObject
    /\ dwt = NoObject
    /\ dwt_obs = NoDwtCall
    /\ collected = NothingCollected
    /\ lag = NoObject
    /\ fir = NoObject
    /\ bank \in {BankFresh(c, z) : c \in FirCoefInputs, z \in FirStaleInputs}
    /\ rt = NoObject
    /\ ann = NoObject
    /\ fact = NoObject

\* the caller's buffer is any of LagrangeBuffers
InitLagrange ==
    /\ PoolInit
    /\ info = NoInfo
    /\ solo = NoObject
    /\ dwt = NoObject
    /\ dwt_obs = NoDwtCall
    /\ collected = NothingCollected
    /\ lag \in {LagFresh(b) : b \in LagrangeBuffers}
    /\ fir = NoObject
    /\ bank = NoObject
    /\ rt = NoObject
    /\ ann = NoObject
    /\ fact = NoObject

\* the delay line array is any of FirStaleInputs
InitFir ==
    /\ PoolInit
    /\ info = NoInfo
    /\ solo = NoObject
    /\ dwt = NoObject
    /\ dwt_obs = NoDwtCall
    /\ collected = NothingCollected
    /\ lag = NoObject
    /\ fir \in {FirFresh(z) : z \in FirStaleInputs}
    /\ bank = NoObject
    /\ rt = NoObject
    /\ ann = NoObject
    /\ fact = NoObject

SuscribeCall(type, m, levels) ==
    LET r == Suscribe_Wavelet_Decimator(wavelet_services, type, m, levels)
    IN /\ wavelet_services' = r.services
       /\ ret' = r.ret
       /\ call' = [fn |-> "suscribe", handle |-> 0 - 1]
       /\ hist' = IF Succeeded("suscribe", r.ret)
                  THEN [hist EXCEPT ![r.ret] = << >>] ELSE hist
       /\ ncalls' = IF Succeeded("suscribe", r.ret) THEN ncalls + 1 ELSE ncalls
       /\ UNCHANGED output

UnsuscribeCall(handle) ==
    LET r == Unsuscribe_Wavelet_Decimator(wavelet_services, handle)
    IN /\ wavelet_services' = r.services
       /\ ret' = r.ret
       /\ call' = [fn |-> "unsuscribe", handle |-> handle]
       /\ hist' = IF Succeeded("unsuscribe", r.ret)
                  THEN [hist EXCEPT ![handle] = << >>] ELSE hist
       /\ ncalls' = IF Succeeded("unsuscribe", r.ret) THEN ncalls + 1 ELSE ncalls
       /\ UNCHANGED output

ProcessCall(handle, input, out_null) ==
    LET r == Process_Wavelet_Decomposition(wavelet_services, handle, input,
                                           out_null, output)
    IN /\ wavelet_services' = r.services
       /\ output' = r.out
       /\ ret' = r.ret
       /\ call' = [fn |-> "process", handle |-> handle]
       /\ hist' = IF Succeeded("process", r.ret)
                  THEN [hist EXCEPT ![handle] =
                           KeepLast(Append(@, r.out.detail_ready), HistLen)]
                  ELSE hist
       /\ ncalls' = IF Succeeded("process", r.ret) THEN ncalls + 1 ELSE ncalls

GetInfoCall(handle, nulls) ==
    LET r == Get_Wavelet_Info(wavelet_services, handle, nulls, info)
    IN /\ info' = r.info
       /\ ret' = r.ret
       /\ call' = [fn |-> "get_info", handle |-> handle]
       /\ ncalls' = IF Succeeded("get_info", r.ret) THEN ncalls + 1 ELSE ncalls
       /\ UNCHANGED <<wavelet_services, output, hist>>

ResetCall(handle) ==
    LET r == Reset_Wavelet_Buffers(wavelet_services, handle)
    IN /\ wavelet_services' = r.services
       /\ ret' = r.ret
       /\ call' = [fn |-> "reset", handle |-> handle]
       /\ hist' = IF Succeeded("reset", r.ret)
                  THEN [hist EXCEPT ![handle] = << >>] ELSE hist
       /\ ncalls' = IF Succeeded("reset", r.ret) THEN ncalls + 1 ELSE ncalls
       /\ UNCHANGED output

\* lagrange_halfband(m, h0) on the caller's buffer
LagrangeCall(m) ==
    LET r == lagrange_halfband(m, lag.h0)
    IN lag' = [m |-> m, before |-> lag.h0, h0 |-> r.h0, result |-> r.result,
               n |-> lag.n + 1]

\* Get_Fir(ncoef, pcoef, pz) with the caller's coefficients in *pcoef
FirGetCall(ncoef, coef) ==
    LET m0 == [fir.mem EXCEPT ![<<"coef", 0>>] = coef]
        r == Get_Fir(ncoef, <<"coef", 0>>, <<"z", 0>>, m0)
    IN fir' = [created |-> TRUE, objeto |-> r.objeto, mem |-> r.mem,
               x |-> << >>, y |-> 0, written |-> 0 - 1]

\* fir_filter(xn, &objeto); written is the cell the cursor stood at
FirFilterCall(xn) ==
    LET r == fir_filter(xn, fir.objeto, fir.mem)
    IN fir' = [created |-> TRUE, objeto |-> r.pfir, mem |-> r.mem,
               x |-> Append(fir.x, xn), y |-> r.y,
               written |-> fir.objeto.p_write]

\* objs[i] = Get_Fir(ncoef, coef, z_i)
BankGetCall(i, ncoef) ==
    LET r == Get_Fir(ncoef, <<"coef", 0>>, <<"z", i>>, bank.mem)
    IN bank' = [bank EXCEPT !.objs[i] = r.objeto,
                            !.made[i] = TRUE,
                            !.mem = r.mem,
                            !.overrun = r.overrun,
                            !.last = [fn |-> "get_fir", who |-> i,
                                      ncoef |-> ncoef, y |-> 0],
                            !.n = @ + 1]

\* fir_filter(xn, &objs[who]), or fir_filter(xn, NULL) when who is -1
BankFilterCall(who, xn) ==
    LET pfir == IF who = 0 - 1 THEN NullFir ELSE bank.objs[who]
        r == fir_filter(xn, pfir, bank.mem)
    IN bank' = [bank EXCEPT !.objs = IF who = 0 - 1 THEN @
                                     ELSE [@ EXCEPT ![who] = r.pfir],
                            !.mem = r.mem,
                            !.last = [fn |-> "fir_filter", who |-> who,
                                      ncoef |-> IF who = 0 - 1 THEN 0
                                                ELSE bank.objs[who].ncoef,
                                      y |-> r.y],
                            !.n = @ + 1]

\* objs[i].ncoef = MAX_FIR_LENGTH + 1, written by the caller
BankForceCall(i) ==
    bank' = [bank EXCEPT !.objs[i].ncoef = MAX_FIR_LENGTH + 1,
                         !.last = [fn |-> "force", who |-> i,
                                   ncoef |-> MAX_FIR_LENGTH + 1, y |-> 0],
                         !.n = @ + 1]

GetDwtCall ==
    /\ dwt' = Get_DWT
    /\ dwt_obs' = NoDwtCall

DwtCall(xin) ==
    LET r == Dwt(xin, dwt)
    IN /\ dwt' = r.d
       /\ dwt_obs' = [n |-> dwt_obs.n + 1, ran |-> r.obs.ran,
                      commit |-> r.obs.commit]

(* ------------------------------ RT_Momentos ----------------------------- *)

RT_MOMENTOS_OK == 0

RT_MOMENTOS_KO == 0 - 1

NONE == 0 - 1

RtServices == 0 .. (MAX_RT_MOMENTOS - 1)

RtCells == 0 .. (N_MA - 1)

\* a BUFFER_Z of zero bytes
ZeroBufferZ == [index_w |-> 0, buffer_z |-> [i \in RtCells |-> 0]]

ZeroBufferFir ==
    [mu_z |-> ZeroBufferZ, sigma2_z |-> ZeroBufferZ,
     a_z |-> ZeroBufferZ, c_z |-> ZeroBufferZ]

\* (RT_MOMENTOS){0}: FREE is the enumerator of value 0
ZeroRtMomentos ==
    [status |-> "FREE", mu |-> 0, var2 |-> 0, A |-> 0, C |-> 0,
     z_buffers |-> ZeroBufferFir]

\* a statistical_object of static storage
ZeroStatistical == [media |-> 0, varianza |-> 0, asimetria |-> 0, curtosis |-> 0]

RECURSIVE SumCells(_, _)
SumCells(buffer_z, i) ==
    IF i >= N_MA THEN 0 ELSE buffer_z[i] + SumCells(buffer_z, i + 1)

\* the average of the N_MA cells after xn is stored at the write index
MA_Filter(pz, xn) ==
    LET index_w == pz.index_w
        stored == [pz.buffer_z EXCEPT ![index_w] = xn]
    IN [y |-> SumCells(stored, 0) \div N_MA,
        pz |-> [index_w |-> (index_w + 1) % N_MA, buffer_z |-> stored]]

\* the largest r in lo .. hi with r * r <= x
RECURSIVE RootBetween(_, _, _)
RootBetween(x, lo, hi) ==
    IF lo >= hi THEN lo
    ELSE LET mid == (lo + hi + 1) \div 2
         IN IF mid * mid <= x THEN RootBetween(x, mid, hi)
            ELSE RootBetween(x, lo, mid - 1)

\* sqrtf of a non-negative float
sqrtf(x) == RootBetween(x * ONE, 0, 4 * ONE)

\* a cursor that is left where it is
NextService_stay(service) == service

\* service++, back to 0 at MAX_RT_MOMENTOS
NextService(service) ==
    IF service + 1 = MAX_RT_MOMENTOS THEN 0 ELSE service + 1

\* the body of subscribe on a FREE slot
AssignService(servicio) ==
    [servicio EXCEPT !.status = "ASIGNED",
                     !.z_buffers = ZeroBufferFir,
                     !.mu = 0, !.var2 = 0, !.A = 0, !.C = 0]

\* the scan that looks at the slot under the cursor and at no other
SuscribeLoop_short(servicios, service, checked) ==
    IF servicios[service].status = "FREE"
    THEN [result |-> service,
          servicios |-> [servicios EXCEPT ![service] = AssignService(@)],
          service |-> NextService(service),
          checked |-> checked + 1]
    ELSE [result |-> NONE, servicios |-> servicios,
          service |-> NextService(service), checked |-> checked + 1]

\* the while loop of subscribe from the static cursor; checked counts the
\* slots looked at
RECURSIVE SuscribeLoop(_, _, _)
SuscribeLoop(servicios, service, checked) ==
    IF servicios[service].status = "FREE"
    THEN [result |-> service,
          servicios |-> [servicios EXCEPT ![service] = AssignService(@)],
          service |-> NextService(service),
          checked |-> checked + 1]
    ELSE IF checked + 1 = MAX_RT_MOMENTOS
    THEN [result |-> NONE, servicios |-> servicios,
          service |-> NextService(service), checked |-> checked + 1]
    ELSE SuscribeLoop(servicios, NextService(service), checked + 1)

Suscribe_RT_Momentos(servicios, service) == SuscribeLoop(servicios, service, 0)

\* the test of the id that looks at the range only
RtValidService_range(servicios, id_service) ==
    id_service >= 0 /\ id_service < MAX_RT_MOMENTOS

RtValidService(servicios, id_service) ==
    /\ id_service >= 0
    /\ id_service < MAX_RT_MOMENTOS
    /\ servicios[id_service].status = "ASIGNED"

Unsuscribe_RT_Momentos(servicios, id_service) ==
    IF RtValidService(servicios, id_service)
    THEN [result |-> RT_MOMENTOS_OK,
          servicios |-> [servicios EXCEPT ![id_service] = ZeroRtMomentos]]
    ELSE [result |-> RT_MOMENTOS_KO, servicios |-> servicios]

\* objects: nsdsp_statistical_objects[]
Compute_RT_Momentos(servicios, objects, id_service, xn) ==
    IF ~RtValidService(servicios, id_service)
    THEN [result |-> RT_MOMENTOS_KO, servicios |-> servicios,
          objects |-> objects]
    ELSE LET s == servicios[id_service]
             m1 == MA_Filter(s.z_buffers.mu_z, xn)
             mu_out == m1.y
             diff == xn - mu_out
             diff2 == FMul(diff, diff)
             diff3 == FMul(diff2, diff)
             diff4 == FMul(diff2, diff2)
             m2 == MA_Filter(s.z_buffers.sigma2_z, diff2)
             sigma2_out == m2.y
             sqrt_sigma2 == sqrtf(sigma2_out)
             sigma2_cubed == FMul(FMul(sqrt_sigma2, sqrt_sigma2), sqrt_sigma2)
             skewed == sigma2_out > 0 /\ sigma2_cubed > 0
             m3 == MA_Filter(s.z_buffers.a_z, (diff3 * ONE) \div sigma2_cubed)
             sigma2_squared == FMul(sigma2_out, sigma2_out)
             m4 == MA_Filter(s.z_buffers.c_z, (diff4 * ONE) \div sigma2_squared)
             A == IF skewed THEN m3.y ELSE 0
             C == IF sigma2_out > 0 THEN m4.y ELSE 0
         IN [result |-> IF sigma2_out > 0 /\ sigma2_cubed > 0
                        THEN RT_MOMENTOS_OK ELSE RT_MOMENTOS_KO,
             servicios |->
                [servicios EXCEPT ![id_service] =
                    [status |-> s.status, mu |-> mu_out, var2 |-> sigma2_out,
                     A |-> A, C |-> C,
                     z_buffers |->
                        [mu_z |-> m1.pz, sigma2_z |-> m2.pz,
                         a_z |-> IF skewed THEN m3.pz ELSE s.z_buffers.a_z,
                         c_z |-> IF sigma2_out > 0 THEN m4.pz
                                 ELSE s.z_buffers.c_z]]],
             objects |->
                [objects EXCEPT ![id_service] =
                    [media |-> mu_out, varianza |-> sigma2_out,
                     asimetria |-> A, curtosis |-> C]]]

(* the RT_Momentos services under any interleaving of calls *)

NoRtCall == [fn |-> "none", id |-> NONE, result |-> 0, checked |-> 0]

\* static storage at program start: every byte zero, the cursor at 0, the
\* pointers of pse not set
RtFresh ==
    [servicios |-> [i \in RtServices |-> ZeroRtMomentos],
     objects |-> [i \in RtServices |-> ZeroStatistical],
     service |-> 0,
     pse |-> FALSE,
     last |-> NoRtCall,
     streak |-> 0,
     n |-> 0]

InitRt ==
    /\ PoolInit
    /\ info = NoInfo
    /\ solo = NoObject
    /\ dwt = NoObject
    /\ dwt_obs = NoDwtCall
    /\ collected = NothingCollected
    /\ lag = NoObject
    /\ fir = NoObject
    /\ bank = NoObject
    /\ rt = RtFresh
    /\ ann = NoObject
    /\ fact = NoObject

\* streak after a call that is not a subscribe: 0 if every slot is FREE
StreakAfter(servicios) ==
    IF \A i \in RtServices : servicios[i].status = "FREE" THEN 0 ELSE 0 - 1

\* Init_RT_Momentos sets the three pointers of pse
RtInitCall ==
    rt' = [rt EXCEPT !.pse = TRUE,
                     !.last = [fn |-> "init", id |-> NONE, result |-> 0,
                               checked |-> 0],
                     !.streak = StreakAfter(rt.servicios)]

RtSuscribeCall ==
    LET r == Suscribe_RT_Momentos(rt.servicios, rt.service)
    IN rt' = [rt EXCEPT !.servicios = r.servicios,
                        !.service = r.service,
                        !.last = [fn |-> "suscribe", id |-> NONE,
                                  result |-> r.result, checked |-> r.checked],
                        !.streak = IF @ < 0 THEN @
                                   ELSE IF @ > MAX_RT_MOMENTOS THEN @
                                   ELSE @ + 1,
                        !.n = IF r.result = NONE THEN @ ELSE @ + 1]

RtUnsuscribeCall(id_service) ==
    LET r == Unsuscribe_RT_Momentos(rt.servicios, id_service)
    IN rt' = [rt EXCEPT !.servicios = r.servicios,
                        !.last = [fn |-> "unsuscribe", id |-> id_service,
                                  result |-> r.result, checked |-> 0],
                        !.streak = StreakAfter(r.servicios),
                        !.n = IF r.result = RT_MOMENTOS_KO THEN @ ELSE @ + 1]

RtComputeCall(id_service, xn) ==
    LET r == Compute_RT_Momentos(rt.servicios, rt.objects, id_service, xn)
    IN rt' = [rt EXCEPT !.servicios = r.servicios,
                        !.objects = r.objects,
                        !.last = [fn |-> "compute", id |-> id_service,
                                  result |-> r.result, checked |-> 0],
                        !.streak = StreakAfter(r.servicios),
                        !.n = IF r.servicios = rt.servicios THEN @ ELSE @ + 1]

RtServiceInputs == (0 - 1) .. MAX_RT_MOMENTOS

RtSampleInputs == {0, ONE}

RtInit ==
    /\ rt.n < MaxRtCalls
    /\ RtInitCall
    /\ UNCHANGED <<poolvars, info, solo, dwt, dwt_obs, collected, lag, fir, bank, ann, fact>>

RtSuscribe ==
    /\ rt.n < MaxRtCalls
    /\ RtSuscribeCall
    /\ UNCHANGED <<poolvars, info, solo, dwt, dwt_obs, collected, lag, fir, bank, ann, fact>>

RtUnsuscribe(id_service) ==
    /\ rt.n < MaxRtCalls
    /\ RtUnsuscribeCall(id_service)
    /\ UNCHANGED <<poolvars, info, solo, dwt, dwt_obs, collected, lag, fir, bank, ann, fact>>

RtCompute(id_service, xn) ==
    /\ rt.n < MaxRtCalls
    /\ RtComputeCall(id_service, xn)
    /\ UNCHANGED <<poolvars, info, solo, dwt, dwt_obs, collected, lag, fir, bank, ann, fact>>

NextRt ==
    \/ RtInit
    \/ RtSuscribe
    \/ \E id \in RtServiceInputs : RtUnsuscribe(id)
    \/ \E id \in RtServiceInputs, xn \in RtSampleInputs : RtCompute(id, xn)

SpecRt == InitRt /\ [][NextRt]_vars

(* the pool under any interleaving of calls *)

Suscribe(type, m, levels) ==
    /\ ncalls < MaxCalls
    /\ SuscribeCall(type, m, levels)
    /\ UNCHANGED handles
    /\ UNCHANGED others

Unsuscribe(handle) ==
    /\ ncalls < MaxCalls
    /\ UnsuscribeCall(handle)
    /\ UNCHANGED handles
    /\ UNCHANGED others

Process(handle, input, out_null) ==
    /\ ncalls < MaxCalls
    /\ ProcessCall(handle, input, out_null)
    /\ UNCHANGED handles
    /\ UNCHANGED others

Next ==
    \/ \E a \in PoolSuscribeInputs : Suscribe(a[1], a[2], a[3])
    \/ \E h \in HandleInputs : Unsuscribe(h)
    \/ \E h \in HandleInputs, x \in PoolSampleInputs, n \in BOOLEAN :
          Process(h, x, n)

Spec == Init /\ [][Next]_vars

(* one pipeline at a time, fed a long run of samples *)

Assigned == {h \in Slots : wavelet_services[h].status = "WD_ASIGNED"}

IsAssigned(h) == wavelet_services[h].status = "WD_ASIGNED"

StreamSuscribe(type, m, levels) ==
    /\ ncalls < MaxStreamCalls
    /\ Assigned = {}
    /\ SuscribeCall(type, m, levels)
    /\ UNCHANGED handles
    /\ UNCHANGED others

StreamUnsuscribe(handle) ==
    /\ ncalls < MaxStreamCalls
    /\ UnsuscribeCall(handle)
    /\ UNCHANGED handles
    /\ UNCHANGED others

StreamProcess(handle, input) ==
    /\ ncalls < MaxStreamCalls
    /\ ProcessCall(handle, input, FALSE)
    /\ UNCHANGED handles
    /\ UNCHANGED others

NextStream ==
    \/ \E a \in ValidSuscribeInputs : StreamSuscribe(a[1], a[2], a[3])
    \/ \E h \in Slots : StreamUnsuscribe(h)
    \/ \E h \in Slots, x \in SampleInputs : StreamProcess(h, x)

SpecStream == Init /\ [][NextStream]_vars

(* Test_Wavelet_Service_Reservation, tests 1 and 2: MAX_WAVELET_SERVICES + 1 *)
(* subscriptions in a row on an initialized pool, the handles kept           *)

TestReserve(type, m, levels) ==
    /\ Len(handles) < MAX_WAVELET_SERVICES + 1
    /\ SuscribeCall(type, m, levels)
    /\ handles' = Append(handles, ret')
    /\ UNCHANGED others

NextReservation ==
    \E a \in ValidSuscribeInputs : TestReserve(a[1], a[2], a[3])

SpecReservation == Init /\ [][NextReservation]_vars

(* the five entry points on all slots, each slot's calls replayed on a pool *)
(* that holds no other pipeline                                              *)

\* the pool of its own that holds the replayed slot at index 0
SoloPool(service) == [Init_Wavelet_Decim EXCEPT ![0] = service]

SoloSuscribe(type, m, levels) ==
    [service |->
        Suscribe_Wavelet_Decimator(Init_Wavelet_Decim, type, m, levels).services[0],
     out |-> ZeroOutput]

SoloProcess(s, input) ==
    LET r == Process_Wavelet_Decomposition(SoloPool(s.service), 0, input,
                                           FALSE, s.out)
    IN [service |-> r.services[0], out |-> r.out]

SoloReset(s) ==
    [service |-> Reset_Wavelet_Buffers(SoloPool(s.service), 0).services[0],
     out |-> s.out]

\* the arguments get_info is called with: no NULL pointer, two NULL pointers
InfoNullInputs == {<<FALSE, FALSE, FALSE>>, <<TRUE, FALSE, TRUE>>}

IndSuscribe(type, m, levels) ==
    /\ ncalls < MaxCalls
    /\ SuscribeCall(type, m, levels)
    /\ solo' = IF Succeeded("suscribe", ret')
               THEN [solo EXCEPT ![ret'] = SoloSuscribe(type, m, levels)]
               ELSE solo
    /\ UNCHANGED <<handles, info, dwt, dwt_obs, collected, units>>

IndUnsuscribe(handle) ==
    /\ ncalls < MaxCalls
    /\ UnsuscribeCall(handle)
    /\ solo' = IF Succeeded("unsuscribe", ret')
               THEN [solo EXCEPT ![handle] = SoloFresh] ELSE solo
    /\ UNCHANGED <<handles, info, dwt, dwt_obs, collected, units>>

IndProcess(handle, input) ==
    /\ ncalls < MaxCalls
    /\ ProcessCall(handle, input, FALSE)
    /\ solo' = IF Succeeded("process", ret')
               THEN [solo EXCEPT ![handle] = SoloProcess(@, input)] ELSE solo
    /\ UNCHANGED <<handles, info, dwt, dwt_obs, collected, units>>

IndReset(handle) ==
    /\ ncalls < MaxCalls
    /\ ResetCall(handle)
    /\ solo' = IF Succeeded("reset", ret')
               THEN [solo EXCEPT ![handle] = SoloReset(@)] ELSE solo
    /\ UNCHANGED <<handles, info, dwt, dwt_obs, collected, units>>

IndGetInfo(handle, nulls) ==
    /\ ncalls < MaxCalls
    /\ GetInfoCall(handle, nulls)
    /\ UNCHANGED <<handles, solo, dwt, dwt_obs, collected, units>>

NextIndependence ==
    \/ \E a \in ValidSuscribeInputs \cap PoolSuscribeInputs :
          IndSuscribe(a[1], a[2], a[3])
    \/ \E h \in Slots : IndUnsuscribe(h)
    \/ \E h \in Slots, x \in PoolSampleInputs : IndProcess(h, x)
    \/ \E h \in Slots : IndReset(h)
    \/ \E h \in Slots, n \in InfoNullInputs : IndGetInfo(h, n)

SpecIndependence == InitIndependence /\ [][NextIndependence]_vars

(* one slot given out again and again: each pipeline is replayed on a pool *)
(* that has just been initialized                                          *)

StaleSuscribe(type, m, levels) ==
    /\ ncalls < MaxStaleCalls
    /\ Assigned = {}
    /\ SuscribeCall(type, m, levels)
    /\ solo' = IF Succeeded("suscribe", ret')
               THEN [solo EXCEPT ![ret'] = SoloSuscribe(type, m, levels)]
               ELSE solo
    /\ UNCHANGED <<handles, info, dwt, dwt_obs, collected, units>>

StaleUnsuscribe(handle) ==
    /\ ncalls < MaxStaleCalls
    /\ UnsuscribeCall(handle)
    /\ solo' = IF Succeeded("unsuscribe", ret')
               THEN [solo EXCEPT ![handle] = SoloFresh] ELSE solo
    /\ UNCHANGED <<handles, info, dwt, dwt_obs, collected, units>>

StaleProcess(handle, input) ==
    /\ ncalls < MaxStaleCalls
    /\ ProcessCall(handle, input, FALSE)
    /\ solo' = IF Succeeded("process", ret')
               THEN [solo EXCEPT ![handle] = SoloProcess(@, input)] ELSE solo
    /\ UNCHANGED <<handles, info, dwt, dwt_obs, collected, units>>

NextStale ==
    \/ \E a \in ValidSuscribeInputs : StaleSuscribe(a[1], a[2], a[3])
    \/ \E h \in Slots : StaleUnsuscribe(h)
    \/ \E h \in Slots, x \in SampleInputs : StaleProcess(h, x)

SpecStale == InitIndependence /\ [][NextStale]_vars

(* one pipeline that is reset: from the reset on it is replayed on a pool  *)
(* where it has just been subscribed with the same configuration           *)

FreshSuscribe(type, m, levels) ==
    /\ ncalls < MaxStaleCalls
    /\ Assigned = {}
    /\ SuscribeCall(type, m, levels)
    /\ solo' = IF Succeeded("suscribe", ret')
               THEN [solo EXCEPT ![ret'] = SoloSuscribe(type, m, levels)]
               ELSE solo
    /\ UNCHANGED <<handles, info, dwt, dwt_obs, collected, units>>

FreshProcess(handle, input) ==
    /\ ncalls < MaxStaleCalls
    /\ ProcessCall(handle, input, FALSE)
    /\ solo' = IF Succeeded("process", ret')
               THEN [solo EXCEPT ![handle] = SoloProcess(@, input)] ELSE solo
    /\ UNCHANGED <<handles, info, dwt, dwt_obs, collected, units>>

FreshReset(handle) ==
    /\ ncalls < MaxStaleCalls
    /\ ResetCall(handle)
    /\ solo' = IF Succeeded("reset", ret')
               THEN [solo EXCEPT ![handle] =
                        SoloSuscribe(wavelet_services[handle].filter,
                                     wavelet_services[handle].m,
                                     wavelet_services[handle].num_levels)]
               ELSE solo
    /\ UNCHANGED <<handles, info, dwt, dwt_obs, collected, units>>

NextFresh ==
    \/ \E a \in ValidSuscribeInputs : FreshSuscribe(a[1], a[2], a[3])
    \/ \E h \in Slots, x \in SampleInputs : FreshProcess(h, x)
    \/ \E h \in Slots : FreshReset(h)

SpecFresh == InitIndependence /\ [][NextFresh]_vars

(* the static DWT and a pool pipeline of as many levels, fed the same samples *)

\* the configurations of a pool pipeline with the level count of the static DWT
LockstepInputs == {a \in ValidSuscribeInputs : a[3] = WAVELET_LEVELS}

\* Get_DWT, and a subscribe on a pool that holds no pipeline
LockstepStart(type, m, levels) ==
    /\ ncalls < MaxStreamCalls
    /\ Assigned = {}
    /\ SuscribeCall(type, m, levels)
    /\ GetDwtCall
    /\ UNCHANGED <<handles, info, solo, collected, units>>

\* one sample given to Dwt and to the pool pipeline
LockstepSample(handle, xin) ==
    /\ ncalls < MaxStreamCalls
    /\ IsAssigned(handle)
    /\ ProcessCall(handle, xin, FALSE)
    /\ DwtCall(xin)
    /\ UNCHANGED <<handles, info, solo, collected, units>>

LockstepStop(handle) ==
    /\ ncalls < MaxStreamCalls
    /\ UnsuscribeCall(handle)
    /\ UNCHANGED <<handles, others>>

NextLockstep ==
    \/ \E a \in LockstepInputs : LockstepStart(a[1], a[2], a[3])
    \/ \E h \in Slots, x \in SampleInputs : LockstepSample(h, x)
    \/ \E h \in Slots : LockstepStop(h)

SpecLockstep == InitStatic /\ [][NextLockstep]_vars

(* the static DWT alone *)

StaticGetDwt ==
    /\ dwt_obs.n > 0
    /\ GetDwtCall
    /\ UNCHANGED <<poolvars, info, solo, collected, units>>

StaticDwt(xin) ==
    /\ dwt_obs.n < MaxStreamCalls
    /\ DwtCall(xin)
    /\ UNCHANGED <<poolvars, info, solo, collected, units>>

NextStatic ==
    \/ StaticGetDwt
    \/ \E x \in SampleInputs : StaticDwt(x)

SpecStatic == InitStatic /\ [][NextStatic]_vars

(* the impulse scenario of process_wavelet_filter: one pipeline, the sample *)
(* 1.0 on its first process call and 0.0 on the later ones, the outputs     *)
(* collected when their level is ready                                      *)

ImpulseInputs ==
    ValidSuscribeInputs
        \cup ({"WAVELET_LAGRANGE"} \X {LAGRANGE_M} \X (1 .. MAX_DECOMP_LEVELS))

\* the subscribe is the first call on the initialised pool
ImpulseSuscribe(type, m, levels) ==
    /\ ncalls = 0
    /\ SuscribeCall(type, m, levels)
    /\ collected' = NothingCollected
    /\ UNCHANGED <<handles, info, solo, dwt, dwt_obs, units>>

\* the sample of the scenario: 1.0 on the first call, 0.0 afterwards
ImpulseSample(handle) == IF hist[handle] = << >> THEN ONE ELSE 0

ImpulseProcess(handle) ==
    /\ ncalls < MaxImpulseCalls
    /\ IsAssigned(handle)
    /\ ProcessCall(handle, ImpulseSample(handle), FALSE)
    /\ collected' =
          [detail |->
              [i \in Levels |->
                  IF output'.detail_ready[i] = 1
                  THEN Append(collected.detail[i], output'.detail[i])
                  ELSE collected.detail[i]],
           low0 |->
              IF output'.detail_ready[0] = 1
              THEN Append(collected.low0,
                          wavelet_services'[handle].levels[0].last_lowpass)
              ELSE collected.low0,
           approximation |->
              IF output'.ready = 1
              THEN Append(collected.approximation, output'.approximation)
              ELSE collected.approximation]
    /\ UNCHANGED <<handles, info, solo, dwt, dwt_obs, units>>

ImpulseUnsuscribe(handle) ==
    /\ ncalls < MaxImpulseCalls
    /\ UnsuscribeCall(handle)
    /\ collected' = IF Succeeded("unsuscribe", ret')
                    THEN NothingCollected ELSE collected
    /\ UNCHANGED <<handles, info, solo, dwt, dwt_obs, units>>

NextImpulse ==
    \/ \E a \in ImpulseInputs : ImpulseSuscribe(a[1], a[2], a[3])
    \/ \E h \in Slots : ImpulseProcess(h)
    \/ \E h \in Slots : ImpulseUnsuscribe(h)

SpecImpulse == Init /\ [][NextImpulse]_vars

(* lagrange_halfband alone, called again and again on the caller's buffer *)

LagrangeInputs == (0 - 1) .. MaxLagrangeM

LagrangeHalfband(m) ==
    /\ lag.n < MaxLagrangeCalls
    /\ LagrangeCall(m)
    /\ UNCHANGED <<poolvars, info, solo, dwt, dwt_obs, collected, fir, bank, rt, ann, fact>>

NextLagrange == \E m \in LagrangeInputs : LagrangeHalfband(m)

SpecLagrange == InitLagrange /\ [][NextLagrange]_vars

(* one FIR filter: created, fed samples, created again *)

FirSampleInputs == {0, ONE, 3 * ONE}

FirGet(ncoef, coef) ==
    /\ \/ ~fir.created
       \/ Len(fir.x) = MaxFirCalls
    /\ FirGetCall(ncoef, coef)
    /\ UNCHANGED <<poolvars, info, solo, dwt, dwt_obs, collected, lag, bank, rt, ann, fact>>

FirFilter(xn) ==
    /\ fir.created
    /\ Len(fir.x) < MaxFirCalls
    /\ FirFilterCall(xn)
    /\ UNCHANGED <<poolvars, info, solo, dwt, dwt_obs, collected, lag, bank, rt, ann, fact>>

NextFir ==
    \/ \E ncoef \in 1 .. MaxFirCoef, coef \in FirCoefInputs :
          FirGet(ncoef, coef)
    \/ \E xn \in FirSampleInputs : FirFilter(xn)

SpecFir == InitFir /\ [][NextFir]_vars

(* the five entry points of the pool, with handles in and out of range *)

InfoSuscribe(type, m, levels) ==
    /\ ncalls < MaxInfoCalls
    /\ SuscribeCall(type, m, levels)
    /\ UNCHANGED <<handles, others>>

InfoUnsuscribe(handle) ==
    /\ ncalls < MaxInfoCalls
    /\ UnsuscribeCall(handle)
    /\ UNCHANGED <<handles, others>>

InfoProcess(handle, input) ==
    /\ ncalls < MaxInfoCalls
    /\ ProcessCall(handle, input, FALSE)
    /\ UNCHANGED <<handles, others>>

InfoReset(handle) ==
    /\ ncalls < MaxInfoCalls
    /\ ResetCall(handle)
    /\ UNCHANGED <<handles, others>>

InfoGetInfo(handle, nulls) ==
    /\ ncalls < MaxInfoCalls
    /\ GetInfoCall(handle, nulls)
    /\ UNCHANGED <<handles, solo, dwt, dwt_obs, collected, units>>

NextInfo ==
    \/ \E a \in ValidSuscribeInputs : InfoSuscribe(a[1], a[2], a[3])
    \/ \E h \in HandleInputs : InfoUnsuscribe(h)
    \/ \E h \in Slots, x \in PoolSampleInputs : InfoProcess(h, x)
    \/ \E h \in HandleInputs : InfoReset(h)
    \/ \E h \in HandleInputs, n \in InfoNullInputs : InfoGetInfo(h, n)

SpecInfo == Init /\ [][NextInfo]_vars

(* several FIR filters on one coefficient array, each on its own delay line *)

\* ncoef of the Get_Fir calls: what the arrays hold, and one too many
BankCoefInputs == (1 .. MaxFirCoef) \cup {MAX_FIR_LENGTH + 1}

\* once Get_Fir has written past an array the program's state is undefined
BankGet(i, ncoef) ==
    /\ bank.n < MaxBankCalls
    /\ ~bank.overrun
    /\ BankGetCall(i, ncoef)
    /\ UNCHANGED <<poolvars, info, solo, dwt, dwt_obs, collected, lag, fir, rt, ann, fact>>

BankFilter(who, xn) ==
    /\ bank.n < MaxBankCalls
    /\ ~bank.overrun
    /\ who # 0 - 1 => bank.made[who]
    /\ BankFilterCall(who, xn)
    /\ UNCHANGED <<poolvars, info, solo, dwt, dwt_obs, collected, lag, fir, rt, ann, fact>>

BankForce(i) ==
    /\ bank.n < MaxBankCalls
    /\ ~bank.overrun
    /\ bank.made[i]
    /\ BankForceCall(i)
    /\ UNCHANGED <<poolvars, info, solo, dwt, dwt_obs, collected, lag, fir, rt, ann, fact>>

NextBank ==
    \/ \E i \in Instances, ncoef \in BankCoefInputs : BankGet(i, ncoef)
    \/ \E who \in Instances \cup {0 - 1}, xn \in FirSampleInputs :
          BankFilter(who, xn)
    \/ \E i \in Instances : BankForce(i)

SpecBank == InitBank /\ [][NextBank]_vars

(* FIR objects of any length from 0 up to the size of the callers' arrays *)

BoundsCoefInputs == 0 .. MaxFirCoef

\* fir_filter(xn, &objs[who]); a cell touched outside the caller's array is
\* an overrun
BoundsFilterCall(who, xn) ==
    LET pfir == bank.objs[who]
        r == fir_filter(xn, pfir, bank.mem)
        a == FirAccesses(pfir)
    IN bank' = [bank EXCEPT !.objs[who] = r.pfir,
                            !.mem = r.mem,
                            !.overrun = \E k \in a.write \cup a.reads :
                                           k \notin DOMAIN bank.mem[pfir.pz],
                            !.last = [fn |-> "fir_filter", who |-> who,
                                      ncoef |-> pfir.ncoef, y |-> r.y],
                            !.n = @ + 1]

BoundsFilter(who, xn) ==
    /\ bank.n < MaxBankCalls
    /\ ~bank.overrun
    /\ bank.made[who]
    /\ BoundsFilterCall(who, xn)
    /\ UNCHANGED <<poolvars, info, solo, dwt, dwt_obs, collected, lag, fir, rt, ann, fact>>

NextBounds ==
    \/ \E i \in Instances, ncoef \in BoundsCoefInputs : BankGet(i, ncoef)
    \/ \E who \in Instances, xn \in FirSampleInputs : BoundsFilter(who, xn)

SpecBounds == InitBank /\ [][NextBounds]_vars

(* --------------------------------- ANN --------------------------------- *)

LMAX == 4

MAX_NEURONS == 100

ANN_OK == 0

ANN_KO == 0 - 1

NSDSP_MATH_OK == 0

NSDSP_MATH_KO == 0 - 1

\* the callers that hold an ANN_SERVICE, each with weight and bias arrays of
\* its own
MaxAnnNets == 2

\* cells of the x0 and y0 arrays of a caller and of the two work buffers
MaxAnnRows == 2

MaxAnnCalls == 4

AnnNets == 0 .. (MaxAnnNets - 1)

AnnCells == 0 .. (MaxAnnRows - 1)

AnnLayers == 0 .. (LMAX - 1)

NullPointer == <<"NULL", 0, 0>>

\* pesos[i] of caller k: callers of even number hold a 2x1 matrix followed by
\* 1x2 matrices, callers of odd number hold 1x1 matrices
PesosOf(k, i) ==
    IF k % 2 = 0
    THEN IF i = 0
         THEN [filas |-> 2, columnas |-> 1,
               pmatriz |-> [j \in 0 .. 1 |-> (j + 1) * (k + 1) * ONE]]
         ELSE [filas |-> 1, columnas |-> 2,
               pmatriz |-> [j \in 0 .. 1 |-> ONE]]
    ELSE [filas |-> 1, columnas |-> 1,
          pmatriz |-> [j \in 0 .. 0 |-> IF i = 0 THEN (k + 2) * ONE ELSE ONE]]

\* bias[i] of caller k, a column of as many rows as pesos[i]
BiasOf(k, i) ==
    IF k % 2 = 0 /\ i = 0
    THEN [filas |-> 2, columnas |-> 1, pmatriz |-> [j \in 0 .. 1 |-> j * ONE]]
    ELSE [filas |-> 1, columnas |-> 1,
          pmatriz |-> [j \in 0 .. 0 |-> IF i = 0 THEN ONE ELSE 0]]

\* the MATRIZ a pointer into a caller's arrays points at
Matriz(p) == IF p[1] = "pesos" THEN PesosOf(p[2], p[3]) ELSE BiasOf(p[2], p[3])

NullMatriz == [filas |-> 0, columnas |-> 0, pmatriz |-> NullPointer]

NoLayer == 0 - 1

\* static LAYER layer_buffer[LMAX], zero at load
ZeroLayerBuffer == [i \in AnnLayers |-> [pesos |-> NullPointer, bias |-> NullPointer]]

\* the service get_ann returns when it turns the call away
DefaultAnnService(trigger) ==
    [trigger |-> trigger,
     x0 |-> NullMatriz,
     net |-> [levels |-> 0, layers |-> [i \in AnnLayers |-> NoLayer]],
     y0 |-> NullMatriz]

\* get_ann(levels, trigger, pesos, bias) on the arrays of caller k; k is
\* NoLayer for NULL arrays. The result is the service and the layer buffer.
get_ann(levels, trigger, k, layer_buffer) ==
    IF levels > LMAX \/ levels = 0 \/ k = NoLayer
    THEN [service |-> DefaultAnnService(trigger), layer_buffer |-> layer_buffer]
    ELSE [service |->
             [trigger |-> trigger,
              x0 |-> IF PesosOf(k, 0).columnas > 0
                     THEN [filas |-> PesosOf(k, 0).columnas, columnas |-> 1,
                           pmatriz |-> NullPointer]
                     ELSE NullMatriz,
              net |-> [levels |-> levels,
                       layers |-> [i \in AnnLayers |->
                                      IF i < levels THEN i ELSE NoLayer]],
              y0 |-> IF PesosOf(k, levels - 1).filas > 0
                     THEN [filas |-> PesosOf(k, levels - 1).filas, columnas |-> 1,
                           pmatriz |-> NullPointer]
                     ELSE NullMatriz],
          layer_buffer |->
             [i \in AnnLayers |->
                 IF i < levels
                 THEN [pesos |-> <<"pesos", k, i>>, bias |-> <<"bias", k, i>>]
                 ELSE layer_buffer[i]]]

\* the dot product of row f of M1 with the column vector v, from `index` on
RECURSIVE DotRow(_, _, _, _)
DotRow(M1, v, f, index) ==
    IF index >= M1.columnas THEN 0
    ELSE FMul(M1.pmatriz[f * M1.columnas + index], v[index])
         + DotRow(M1, v, f, index + 1)

\* matriz_producto(PM1, PM2, PM3) with PM2 a column of filas_m2 rows held in
\* v and PM3 a column of PM1->filas rows held in out
matriz_producto(PM1, filas_m2, v, out) ==
    IF PM1.columnas # filas_m2
    THEN [result |-> NSDSP_MATH_KO,
          out |-> [j \in DOMAIN out |-> IF j < PM1.filas THEN 0 ELSE out[j]]]
    ELSE [result |-> NSDSP_MATH_OK,
          out |-> [j \in DOMAIN out |->
                      IF j < PM1.filas THEN DotRow(PM1, v, j, 0) ELSE out[j]]]

\* trigger_ann on one value, for the two triggers that need no exponential
trigger_ann(value, trigger) ==
    IF trigger = "RELU" THEN (IF value > 0 THEN value ELSE 0)
    ELSE (IF value >= 0 THEN ONE ELSE 0)

\* the loop of iterate_ann over the layers: cin is the buffer current_input
\* points at, cout the one current_output points at, swapped tells whether
\* they have changed places an odd number of times
RECURSIVE IterateLevels(_, _, _, _, _, _, _)
IterateLevels(service, layer_buffer, current_level, filas, cin, cout, swapped) ==
    IF current_level >= service.net.levels
    THEN [result |-> ANN_OK, cin |-> cin, cout |-> cout, swapped |-> swapped]
    ELSE IF service.net.layers[current_level] = NoLayer
    THEN [result |-> ANN_KO, cin |-> cin, cout |-> cout, swapped |-> swapped]
    ELSE
      LET layer == layer_buffer[service.net.layers[current_level]]
      IN IF layer.pesos = NullPointer \/ layer.bias = NullPointer
         THEN [result |-> ANN_KO, cin |-> cin, cout |-> cout, swapped |-> swapped]
         ELSE
           LET pesos == Matriz(layer.pesos)
               bias == Matriz(layer.bias)
               p == matriz_producto(pesos, filas, cin, cout)
           IN IF pesos.filas > MAX_NEURONS
              THEN [result |-> ANN_KO, cin |-> cin, cout |-> cout,
                    swapped |-> swapped]
              ELSE IF p.result # NSDSP_MATH_OK
              THEN [result |-> ANN_KO, cin |-> cin, cout |-> p.out,
                    swapped |-> swapped]
              ELSE
                LET act == [j \in DOMAIN cout |->
                               IF j < pesos.filas
                               THEN trigger_ann(p.out[j] + bias.pmatriz[j],
                                                service.trigger)
                               ELSE p.out[j]]
                IN IterateLevels(service, layer_buffer, current_level + 1,
                                 pesos.filas, act, cin, ~swapped)

\* iterate_ann(&service): x and y are the arrays x0.pmatriz and y0.pmatriz
\* point at. The result is the return value, y and the two work buffers.
iterate_ann(service, layer_buffer, x, y, temp_buffer1, temp_buffer2) ==
    IF \/ service.net.levels = 0
       \/ service.net.levels > LMAX
       \/ service.x0.pmatriz = NullPointer
       \/ service.y0.pmatriz = NullPointer
       \/ service.x0.filas > MAX_NEURONS
    THEN [result |-> ANN_KO, y |-> y,
          temp_buffer1 |-> temp_buffer1, temp_buffer2 |-> temp_buffer2]
    ELSE
      LET first == [j \in AnnCells |->
                       IF j < service.x0.filas THEN x[j] ELSE temp_buffer1[j]]
          r == IterateLevels(service, layer_buffer, 0, service.x0.filas,
                             first, temp_buffer2, FALSE)
      IN [result |-> r.result,
          y |-> IF r.result = ANN_OK
                THEN [j \in AnnCells |->
                         IF j < service.y0.filas THEN r.cin[j] ELSE y[j]]
                ELSE y,
          temp_buffer1 |-> IF r.swapped THEN r.cout ELSE r.cin,
          temp_buffer2 |-> IF r.swapped THEN r.cin ELSE r.cout]

\* the weight and bias matrices iterate_ann reads for a service
LayersUsed(service, layer_buffer) ==
    [i \in 0 .. (service.net.levels - 1) |->
        LET layer == layer_buffer[service.net.layers[i]]
        IN [pesos |-> Matriz(layer.pesos), bias |-> Matriz(layer.bias)]]

NoAnnCall == [fn |-> "none", who |-> 0, result |-> ANN_OK]

ZeroCells == [j \in AnnCells |-> 0]

AnnFresh ==
    [layer_buffer |-> ZeroLayerBuffer,
     services |-> [k \in AnnNets |-> DefaultAnnService("RELU")],
     made |-> [k \in AnnNets |-> FALSE],
     x |-> [k \in AnnNets |-> ZeroCells],
     y |-> [k \in AnnNets |-> ZeroCells],
     temp_buffer1 |-> ZeroCells,
     temp_buffer2 |-> ZeroCells,
     last |-> NoAnnCall,
     n |-> 0]

InitAnn ==
    /\ PoolInit
    /\ info = NoInfo
    /\ solo = NoObject
    /\ dwt = NoObject
    /\ dwt_obs = NoDwtCall
    /\ collected = NothingCollected
    /\ lag = NoObject
    /\ fir = NoObject
    /\ bank = NoObject
    /\ rt = NoObject
    /\ ann = AnnFresh
    /\ fact = NoObject

\* caller k: services[k] = get_ann(levels, trigger, pesos_k, bias_k), then,
\* if attach, x0.pmatriz = x_k and y0.pmatriz = y_k
AnnGetCall(k, levels, trigger, attach) ==
    LET r == get_ann(levels, trigger, k, ann.layer_buffer)
        s == r.service
    IN ann' = [ann EXCEPT
                 !.layer_buffer = r.layer_buffer,
                 !.services[k] =
                     IF attach /\ s.net.levels > 0
                     THEN [s EXCEPT !.x0.pmatriz = <<"x", k, 0>>,
                                    !.y0.pmatriz = <<"y", k, 0>>]
                     ELSE s,
                 !.made[k] = TRUE,
                 !.last = [fn |-> "get_ann", who |-> k,
                           result |-> IF s.net.levels > 0 THEN ANN_OK ELSE ANN_KO],
                 !.n = @ + 1]

\* caller k: x_k[0 ..] = xn, iterate_ann(&services[k])
AnnIterateCall(k, xn) ==
    LET x == [j \in AnnCells |-> xn]
        r == iterate_ann(ann.services[k], ann.layer_buffer, x, ann.y[k],
                         ann.temp_buffer1, ann.temp_buffer2)
    IN ann' = [ann EXCEPT
                 !.x[k] = x,
                 !.y[k] = r.y,
                 !.temp_buffer1 = r.temp_buffer1,
                 !.temp_buffer2 = r.temp_buffer2,
                 !.last = [fn |-> "iterate_ann", who |-> k, result |-> r.result],
                 !.n = @ + 1]

AnnLevelInputs == {0, 1, 2, LMAX + 1}

AnnTriggerInputs == {"RELU", "STEP"}

AnnSampleInputs == {0 - ONE, ONE}

AnnGet(k, levels, trigger, attach) ==
    /\ ann.n < MaxAnnCalls
    /\ AnnGetCall(k, levels, trigger, attach)
    /\ UNCHANGED <<poolvars, info, solo, dwt, dwt_obs, collected, lag, fir, bank, rt, fact>>

AnnIterate(k, xn) ==
    /\ ann.n < MaxAnnCalls
    /\ ann.made[k]
    /\ AnnIterateCall(k, xn)
    /\ UNCHANGED <<poolvars, info, solo, dwt, dwt_obs, collected, lag, fir, bank, rt, fact>>

NextAnn ==
    \/ \E k \in AnnNets, levels \in AnnLevelInputs,
          trigger \in AnnTriggerInputs, attach \in BOOLEAN :
          AnnGet(k, levels, trigger, attach)
    \/ \E k \in AnnNets, xn \in AnnSampleInputs : AnnIterate(k, xn)

SpecAnn == InitAnn /\ [][NextAnn]_vars

(* ----------------------- factorial in unsigned long ---------------------- *)

\* bits of an unsigned long where long has 64 bits; where it has 32 the
\* products wrap sooner
ULONG_BITS == 64

\* an unsigned value is held as limbs of 8 bits, the lowest first
Limb == 2 ^ 8

ULongLimbs == ULONG_BITS \div 8

\* limbs enough for 31! without loss
WideLimbs == 2 * ULongLimbs

\* the value 1 on `limbs` limbs
OneOn(limbs) == [p \in 1 .. limbs |-> IF p = 1 THEN 1 ELSE 0]

\* x * i on as many limbs as x has, from limb pos on with carry coming in;
\* the carry out of the highest limb is lost
RECURSIVE TimesFrom(_, _, _, _)
TimesFrom(x, i, pos, carry) ==
    IF pos > Len(x) THEN << >>
    ELSE LET t == x[pos] * i + carry
         IN <<t % Limb>> \o TimesFrom(x, i, pos + 1, t \div Limb)

\* result *= (unsigned long)i
Times(x, i) == TimesFrom(x, i, 1, 0)

\* the loop of factorial from i on, on as many limbs as result has
RECURSIVE FactorialLoop(_, _, _)
FactorialLoop(result, i, n) ==
    IF i > n THEN result ELSE FactorialLoop(Times(result, i), i + 1, n)


\* factorial(n) as the code computes it, n >= 0: an unsigned long
factorial_ul(n) == FactorialLoop(OneOn(ULongLimbs), 2, n)

\* n! itself
ExactFactorial(n) == FactorialLoop(OneOn(WideLimbs), 2, n)

\* an unsigned long widened without change of value
Widen(x) == [p \in 1 .. WideLimbs |-> IF p <= Len(x) THEN x[p] ELSE 0]

\* the value of limbs that hold less than 2^31
RECURSIVE ValueFrom(_, _)
ValueFrom(x, pos) ==
    IF pos > Len(x) THEN 0 ELSE x[pos] + Limb * ValueFrom(x, pos + 1)

FactFresh == [m |-> 0, l |-> 0, fact_m_minus_l |-> OneOn(ULongLimbs),
              fact_m_plus_l_minus_1 |-> OneOn(ULongLimbs)]

InitFactorial ==
    /\ PoolInit
    /\ info = NoInfo
    /\ solo = NoObject
    /\ dwt = NoObject
    /\ dwt_obs = NoDwtCall
    /\ collected = NothingCollected
    /\ lag = NoObject
    /\ fir = NoObject
    /\ bank = NoObject
    /\ rt = NoObject
    /\ ann = NoObject
    /\ fact = FactFresh

\* turn l of the loop of lagrange_halfband(m, h0): the two factorial calls
FactorialTurn(m, l) ==
    /\ fact' = [m |-> m, l |-> l,
                fact_m_minus_l |-> factorial_ul(m - l),
                fact_m_plus_l_minus_1 |-> factorial_ul(m - 1 + l)]
    /\ UNCHANGED <<poolvars, info, solo, dwt, dwt_obs, collected, lag, fir, bank, rt, ann>>

NextFactorial ==
    \E m \in 1 .. LAGRANGE_M_MAX : \E l \in 1 .. m : FactorialTurn(m, l)

SpecFactorial == InitFactorial /\ [][NextFactorial]_vars

(* ------------------------------- claims -------------------------------- *)

Pow2(n) == 2 ^ n

\* number of the latest n process calls on slot h that set detail_ready[i]
ReadyCount(h, i, n) ==
    Cardinality({k \in (Len(hist[h]) - n + 1) .. Len(hist[h]) : hist[h][k][i] = 1})

\* C1: over consecutive successful process calls on a handle, detail_ready[i]
\* is set in exactly one call out of every 2^(i+1) consecutive calls, for
\* every configured level i.
C1_Cadence ==
    \A h \in Slots : IsAssigned(h) =>
        \A i \in Levels :
            (i < wavelet_services[h].num_levels /\ Len(hist[h]) >= Pow2(i + 1))
                => ReadyCount(h, i, Pow2(i + 1)) = 1

\* a full window of the deepest level that does not start at the first call
C1_Witness ==
    \E h \in Slots :
        /\ IsAssigned(h)
        /\ wavelet_services[h].num_levels = MAX_DECOMP_LEVELS
        /\ Len(hist[h]) = Pow2(MAX_DECOMP_LEVELS)
        /\ hist[h][1][0] = 0
        /\ hist[h][Len(hist[h])][MAX_DECOMP_LEVELS - 1] = 1

\* the two delay lines of level i of slot h after a call that wrote v into them
WroteSample(old, new, i, v) ==
    LET Written(b, nb) ==
            /\ nb.buffer = [b.buffer EXCEPT ![b.write_index] = v]
            /\ nb.write_index = (b.write_index + 1) % b.buffer_size
            /\ nb.buffer_size = b.buffer_size
    IN /\ Written(old.levels[i].lowpass_buffer, new.levels[i].lowpass_buffer)
       /\ Written(old.levels[i].highpass_buffer, new.levels[i].highpass_buffer)

DelayLinesUntouched(old, new, i) ==
    /\ new.levels[i].lowpass_buffer = old.levels[i].lowpass_buffer
    /\ new.levels[i].highpass_buffer = old.levels[i].highpass_buffer

\* C2: in a successful process call level 0 writes the raw sample into its
\* delay lines; a level i > 0 writes iff level i-1 signalled readiness in the
\* same call, and what it writes is the low-pass output level i-1 committed.
C2_LevelInputs ==
    [][\A h \in Slots, x \in SampleInputs :
         (call'.fn = "process" /\ IsAssigned(h) /\ ProcessCall(h, x, FALSE)) =>
            LET old == wavelet_services[h]
                new == wavelet_services'[h]
            IN /\ WroteSample(old, new, 0, x)
               /\ \A i \in Levels : (0 < i /\ i < old.num_levels) =>
                     IF output'.detail_ready[i - 1] = 1
                     THEN WroteSample(old, new, i, new.levels[i - 1].last_lowpass)
                     ELSE DelayLinesUntouched(old, new, i)]_vars

\* the newest sample of a delay line
Newest(b) == b.buffer[(b.write_index - 1 + b.buffer_size) % b.buffer_size]

\* after a process call in which level 1 took a second, non-zero sample from
\* level 0 that differs from the raw sample
C2_Witness ==
    /\ call.fn = "process" /\ ret = WAVELET_DECIM_OK
    /\ LET s == wavelet_services[call.handle]
       IN /\ s.num_levels >= 2
          /\ output.detail_ready[0] = 1
          /\ s.levels[1].lowpass_buffer.write_index = 2
          /\ Newest(s.levels[1].lowpass_buffer) = s.levels[0].last_lowpass
          /\ Newest(s.levels[1].lowpass_buffer) # 0
          /\ Newest(s.levels[1].lowpass_buffer) # Newest(s.levels[0].lowpass_buffer)

\* C3: after a successful process call, ready equals detail_ready of the
\* deepest configured level; when ready is set the approximation is that
\* level's low-pass output of this call, and every ready level's detail is
\* that level's high-pass output of this call.
C3_Outputs ==
    (call.fn = "process" /\ ret = WAVELET_DECIM_OK) =>
        LET s == wavelet_services[call.handle]
            deepest == s.num_levels - 1
        IN /\ output.ready = output.detail_ready[deepest]
           /\ output.ready = 1 =>
                 output.approximation =
                    Apply_Wavelet_Filter(s.levels[deepest].lowpass_buffer,
                                         s.h0, s.num_coeffs)
           /\ \A i \in Levels : (i < s.num_levels /\ output.detail_ready[i] = 1) =>
                 output.detail[i] =
                    Apply_Wavelet_Filter(s.levels[i].highpass_buffer,
                                         s.h1, s.num_coeffs)

\* a two-level pipeline whose deepest level is ready, with non-zero outputs,
\* in a call later than its first one
C3_Witness ==
    /\ call.fn = "process" /\ ret = WAVELET_DECIM_OK
    /\ wavelet_services[call.handle].num_levels = 2
    /\ Len(hist[call.handle]) > 1
    /\ output.ready = 1
    /\ output.approximation # 0
    /\ output.detail[0] # 0
    /\ output.detail[1] # 0

\* C4: on an initialized pool, of MAX_WAVELET_SERVICES + 1 subscriptions in a
\* row with valid parameters the first MAX_WAVELET_SERVICES return pairwise
\* distinct handles in [0, MAX_WAVELET_SERVICES) and the last returns -1.
C4_Exhaustion ==
    /\ \A k \in 1 .. Len(handles) :
          IF k <= MAX_WAVELET_SERVICES
          THEN /\ handles[k] >= 0 /\ handles[k] < MAX_WAVELET_SERVICES
               /\ \A j \in 1 .. (k - 1) : handles[j] # handles[k]
          ELSE handles[k] = 0 - 1

\* the test has made all its subscriptions
C4_Witness ==
    /\ Len(handles) = MAX_WAVELET_SERVICES + 1
    /\ call.fn = "suscribe"
    /\ ret = 0 - 1

\* the cases in which subscribe is to fail
SuscribeMustFail(type, m, levels) ==
    \/ type \notin {"WAVELET_LAGRANGE", "WAVELET_DB4", "WAVELET_DB8"}
    \/ (type = "WAVELET_LAGRANGE" /\ (m < 1 \/ m > 16))
    \/ levels < 1
    \/ levels > MAX_DECOMP_LEVELS
    \/ \A h \in Slots : IsAssigned(h)

\* C5: a subscribe call with an invalid filter type, a Lagrange m outside
\* [1, 16], a level count outside [1, MAX_DECOMP_LEVELS] or no Free slot
\* returns -1, and a subscribe call that returns -1 changes no slot.
C5_FailedSuscribe ==
    [][call'.fn = "suscribe" =>
         /\ ret' = 0 - 1 => wavelet_services' = wavelet_services
         /\ \A a \in SuscribeInputs :
               (ret' # 0 - 1 /\ SuscribeMustFail(a[1], a[2], a[3]))
                  => ~SuscribeCall(a[1], a[2], a[3])]_vars

\* a rejected subscribe on a pool that has a live pipeline and a Free slot
C5_Witness ==
    /\ call.fn = "suscribe" /\ ret = 0 - 1
    /\ \E h \in Slots : IsAssigned(h)
    /\ \E h \in Slots : ~IsAssigned(h)

ZeroedLevel(lv) ==
    /\ lv.sample_counter = 0
    /\ lv.last_lowpass = 0
    /\ lv.last_highpass = 0
    /\ lv.lowpass_buffer.write_index = 0
    /\ lv.highpass_buffer.write_index = 0
    /\ lv.lowpass_buffer.buffer = ZeroArray
    /\ lv.highpass_buffer.buffer = ZeroArray

\* C6: a successful subscribe(type, m, levels) leaves the returned slot
\* Assigned with, for every level i < levels, sample counter, write cursors,
\* last outputs and delay lines all zero, whatever the slot held before.
C6_SuscribeZeroes ==
    [][\A a \in SuscribeInputs :
         (call'.fn = "suscribe" /\ ret' # 0 - 1 /\ SuscribeCall(a[1], a[2], a[3])) =>
            /\ wavelet_services'[ret'].status = "WD_ASIGNED"
            /\ \A i \in Levels :
                  i < a[3] => ZeroedLevel(wavelet_services'[ret'].levels[i])]_vars

\* a slot subscribed again after an earlier pipeline of more levels ran on it:
\* the level above the configured one still shows the old cursor
C6_Witness ==
    /\ call.fn = "suscribe" /\ ret # 0 - 1
    /\ wavelet_services[ret].num_levels = 1
    /\ wavelet_services[ret].levels[1].lowpass_buffer.write_index = 1
    /\ ZeroedLevel(wavelet_services[ret].levels[0])

\* C7 as claimed: a successful unsubscribe(h) leaves slot h Free with all
\* coefficients, delay-line contents, write cursors, sample counters and last
\* outputs at their initial zero values.
C7_UnsuscribeWipes ==
    (call.fn = "unsuscribe" /\ ret = WAVELET_DECIM_OK) =>
        LET s == wavelet_services[call.handle]
        IN /\ s.status = "WD_FREE"
           /\ s.h0 = ZeroArray /\ s.h1 = ZeroArray
           /\ \A i \in Levels : ZeroedLevel(s.levels[i])

\* C8: unsubscribe(h) with h out of range or with slot h Free returns the
\* error code and changes no slot.
C8_FailedUnsuscribe ==
    [][\A h \in HandleInputs :
         (call'.fn = "unsuscribe"
            /\ (h < 0 \/ h >= MAX_WAVELET_SERVICES \/ ~IsAssigned(h))
            /\ UnsuscribeCall(h)) =>
               /\ ret' = WAVELET_DECIM_KO
               /\ wavelet_services' = wavelet_services]_vars

\* a second unsubscribe of a handle: the slot is Free and was in use before
C8_Witness ==
    /\ call.fn = "unsuscribe" /\ ret = WAVELET_DECIM_KO
    /\ call.handle \in Slots
    /\ wavelet_services[call.handle].levels[0].lowpass_buffer.buffer_size # 0
    /\ ~IsAssigned(call.handle)

LowestFree == CHOOSE h \in Slots :
                 /\ ~IsAssigned(h)
                 /\ \A j \in Slots : j < h => IsAssigned(j)

\* C9 as claimed: the subscribe call that follows a successful unsubscribe(h)
\* returns h.
C9_ReusesFreedSlot ==
    [][\A a \in ValidSuscribeInputs :
         (call.fn = "unsuscribe" /\ ret = WAVELET_DECIM_OK
            /\ call'.fn = "suscribe"
            /\ SuscribeCall(a[1], a[2], a[3])) => ret' = call.handle]_vars

\* C9 amended: while a slot h is Free (as it is from a successful
\* unsubscribe(h) to the next successful subscribe) a subscribe call with
\* valid parameters succeeds and returns the lowest Free slot: h when every
\* slot below h is Assigned, a lower handle otherwise.
C9_ReusesLowestFree ==
    [][(call'.fn = "suscribe" /\ \E h \in Slots : ~IsAssigned(h)) =>
         /\ \A a \in ValidSuscribeInputs \cap PoolSuscribeInputs :
               ret' = 0 - 1 => ~SuscribeCall(a[1], a[2], a[3])
         /\ \A h \in Slots :
               (ret' # 0 - 1 /\ ~IsAssigned(h)) =>
                  /\ ret' = LowestFree
                  /\ ret' <= h
                  /\ ret' = h <=> \A j \in Slots : j < h => IsAssigned(j)]_vars

\* a subscribe that returned handle 0 while slot 1, used and released
\* earlier, is Free
C9_Witness ==
    /\ call.fn = "suscribe" /\ ret = 0
    /\ ~IsAssigned(1)
    /\ wavelet_services[1].levels[0].lowpass_buffer.buffer_size # 0

\* C10: process(h, x, out) with h out of range, slot h not Assigned or a null
\* output pointer returns the error code and changes neither a slot nor the
\* caller's output structure.
C10_FailedProcess ==
    [][\A h \in HandleInputs, x \in SampleInputs, n \in BOOLEAN :
         (call'.fn = "process"
            /\ (h < 0 \/ h >= MAX_WAVELET_SERVICES \/ n \/ ~IsAssigned(h))
            /\ ProcessCall(h, x, n)) =>
               /\ ret' = WAVELET_DECIM_KO
               /\ wavelet_services' = wavelet_services
               /\ output' = output]_vars

\* a rejected process call on a slot in range, the caller's structure still
\* holding the outputs of an earlier call, and a pipeline with samples in it
C10_Witness ==
    /\ call.fn = "process" /\ ret = WAVELET_DECIM_KO
    /\ call.handle \in Slots
    /\ output.ready = 1 /\ output.approximation # 0
    /\ \E h \in Slots :
          IsAssigned(h) /\ wavelet_services[h].levels[0].lowpass_buffer.write_index # 0

\* C11: every step of the pool changes at most the slot the call addresses
\* (the slot a subscribe returns), and the output of every successful process
\* call equals the output of the same call in a replay of the handle's own
\* calls since its subscribe on a pool that holds no other pipeline.
C11_Independence ==
    [][/\ \A j \in Slots :
             wavelet_services'[j] # wavelet_services[j] =>
                j = (IF call'.fn = "suscribe" THEN ret' ELSE call'.handle)
       /\ (call'.fn = "process" /\ ret' = WAVELET_DECIM_OK) =>
             output' = solo'[call'.handle].out]_vars

\* a second successful process call on handle 1 while handle 0 is a live
\* pipeline that has processed a sample of its own
C11_Witness ==
    /\ call.fn = "process" /\ ret = WAVELET_DECIM_OK /\ call.handle = 1
    /\ Len(hist[1]) >= 2
    /\ IsAssigned(0) /\ Len(hist[0]) >= 1
    /\ output.detail_ready[0] = 0

\* C12: with a pool pipeline of WAVELET_LEVELS levels and the static DWT fed
\* the same samples from their start, at every sample and every level i the
\* Dwt call commits a new level-i output exactly when the process call sets
\* detail_ready[i], and both do so exactly when the number of samples given
\* before is a multiple of 2^(i+1).
C12_SameCadence ==
    (call.fn = "process" /\ ret = WAVELET_DECIM_OK) =>
        \A i \in DwtLevels :
            /\ dwt_obs.commit[i] <=> output.detail_ready[i] = 1
            /\ dwt_obs.commit[i] <=> (dwt_obs.n - 1) % Pow2(i + 1) = 0

\* a full period of the deepest level: it has just committed for the second
\* time
C12_Witness ==
    /\ call.fn = "process" /\ ret = WAVELET_DECIM_OK
    /\ dwt_obs.n = Pow2(WAVELET_LEVELS) + 1
    /\ dwt_obs.commit[WAVELET_LEVELS - 1]
    /\ output.ready = 1

\* the two delay lines and write cursors of level i of the static DWT
DwtDelayLines(d, i) ==
    <<d.mem[<<"lp_z", i>>], d.mem[<<"hp_z", i>>],
      d.filtrolp[i].p_write, d.filtrohp[i].p_write>>

\* C13: in the Dwt call number t since Get_DWT (t = 0, 1, ...), level i runs
\* its two filters, writing both delay lines, exactly when t mod 2^i = 0, and
\* commits yout[i] (and yout[WAVELET_LEVELS] at the deepest level) exactly
\* when t mod 2^(i+1) = 0; in any other call yout[i] keeps its value and the
\* delay lines of level i are not written.
C13_StaticCadence ==
    [][dwt_obs'.n = dwt_obs.n + 1 =>
         \A i \in DwtLevels :
            LET t == dwt_obs.n
                ran == dwt_obs'.ran[i]
                commit == dwt_obs'.commit[i]
            IN /\ ran <=> t % Pow2(i) = 0
               /\ commit <=> t % Pow2(i + 1) = 0
               /\ ran <=> dwt'.filtrolp[i].p_write # dwt.filtrolp[i].p_write
               /\ ran <=> dwt'.filtrohp[i].p_write # dwt.filtrohp[i].p_write
               /\ ~ran => DwtDelayLines(dwt', i) = DwtDelayLines(dwt, i)
               /\ ~commit => dwt'.yout[i] = dwt.yout[i]
               /\ commit => dwt'.yout[i] = dwt'.yhtemp[i]
               /\ (i = WAVELET_LEVELS - 1) =>
                     IF commit
                     THEN dwt'.yout[i + 1] = dwt'.yltemp[i]
                     ELSE dwt'.yout[i + 1] = dwt.yout[i + 1]]_vars

\* the call t = 3 has been made: level 0 ran without committing, the deepest
\* level did not run, and the detail committed before is still there
C13_Witness ==
    /\ dwt_obs.n = 4
    /\ dwt_obs.ran[0] /\ ~dwt_obs.commit[0]
    /\ ~dwt_obs.ran[WAVELET_LEVELS - 1]
    /\ dwt.yout[0] # 0

\* tap number n of a filter of N taps, 0 past its end
TapOrZero(coeffs, N, n) == IF n < N THEN coeffs[n] ELSE 0

\* the values of the taps of the pipeline's two filters, and 0
TapValues(service) ==
    {0} \cup {service.h0[n] : n \in 0 .. (service.num_coeffs - 1)}
        \cup {service.h1[n] : n \in 0 .. (service.num_coeffs - 1)}

\* C14 as claimed: in the impulse scenario on Lagrange(m = 3, levels = 2) the
\* outputs collected at every level's readiness (the details of both levels
\* and the approximation) are taps of the pipeline's filters.
C14_EveryLevelTaps ==
    \A h \in Slots :
        (/\ IsAssigned(h)
         /\ wavelet_services[h].filter = "WAVELET_LAGRANGE"
         /\ wavelet_services[h].m = 3
         /\ wavelet_services[h].num_levels = 2) =>
            /\ \A i \in Levels : \A k \in 1 .. Len(collected.detail[i]) :
                  collected.detail[i][k] \in TapValues(wavelet_services[h])
            /\ \A k \in 1 .. Len(collected.approximation) :
                  collected.approximation[k] \in TapValues(wavelet_services[h])

\* C14 amended: in the impulse scenario the outputs of level 0 collected at
\* its readiness are the taps at even positions: the k-th detail[0]
\* (k = 0, 1, ...) is h1[2k] and the k-th low-pass output of level 0 is
\* h0[2k] for 2k < N, and both are 0 for 2k >= N.
C14_LevelZeroTaps ==
    \A h \in Slots :
        IsAssigned(h) =>
            LET s == wavelet_services[h]
            IN /\ \A k \in 1 .. Len(collected.detail[0]) :
                     collected.detail[0][k] =
                        TapOrZero(s.h1, s.num_coeffs, 2 * (k - 1))
               /\ \A k \in 1 .. Len(collected.low0) :
                     collected.low0[k] =
                        TapOrZero(s.h0, s.num_coeffs, 2 * (k - 1))

\* Lagrange(m = 3, levels = 2) has given its seventh detail[0], the first one
\* past the end of the 11 taps, after six that are the taps h1[0], h1[2], ...
C14_Witness ==
    /\ \E h \in Slots :
          /\ IsAssigned(h)
          /\ wavelet_services[h].filter = "WAVELET_LAGRANGE"
          /\ wavelet_services[h].m = 3
          /\ wavelet_services[h].num_levels = 2
          /\ wavelet_services[h].h1[0] # 0
    /\ Len(collected.detail[0]) = 7
    /\ collected.detail[0][1] # 0
    /\ collected.detail[0][7] = 0

\* C15 as claimed: on a freshly subscribed pipeline of L levels no process
\* call before the 2^L-th has the deepest level ready.
C15_FirstOutputAfterChain ==
    \A h \in Slots :
        (IsAssigned(h) /\ Len(hist[h]) < HistLen) =>
            LET L == wavelet_services[h].num_levels
            IN \A k \in 1 .. Len(hist[h]) :
                  k < Pow2(L) => hist[h][k][L - 1] = 0

\* C15 amended: on a freshly subscribed pipeline of L levels the first
\* process call has every level ready, the deepest one included, and among
\* the calls that follow the deepest level is ready on exactly those that
\* come a multiple of 2^L calls after the first.
C15_FirstOutputAtOnce ==
    \A h \in Slots :
        (IsAssigned(h) /\ Len(hist[h]) < HistLen) =>
            LET L == wavelet_services[h].num_levels
            IN /\ \A k \in 1 .. Len(hist[h]) :
                     hist[h][k][L - 1] = 1 <=> (k - 1) % Pow2(L) = 0
               /\ Len(hist[h]) >= 1 =>
                     \A i \in Levels : i < L => hist[h][1][i] = 1

\* the first process call on a pipeline of MAX_DECOMP_LEVELS levels,
\* subscribed on a slot used before, has returned with ready set
C15_Witness ==
    /\ call.fn = "process" /\ ret = WAVELET_DECIM_OK
    /\ Len(hist[call.handle]) = 1
    /\ wavelet_services[call.handle].num_levels = MAX_DECOMP_LEVELS
    /\ output.ready = 1
    /\ ncalls > 2

\* the sign that alternates with i and starts at -1 for even N, +1 for odd N
ParitySign(N, i) ==
    LET start == IF N % 2 = 0 THEN 0 - 1 ELSE 1
    IN IF i % 2 = 0 THEN start ELSE 0 - start

\* C16 as claimed: the high-pass taps of every Assigned pool pipeline and of
\* the static DWT are h1[i] = s_i * h0[N-1-i], with s_i alternating and s_0
\* fixed by the parity of N: +1 for odd N, as the Lagrange filters of both
\* variants have it, and so -1 for even N.
C16_SignByParity ==
    /\ \A i \in DwtTaps :
          dwt.mem[<<"hp_coef", 0>>][i] =
             ParitySign(BUFFER_SIZE, i)
                * dwt.mem[<<"lp_coef", 0>>][BUFFER_SIZE - 1 - i]
    /\ \A h \in Slots :
          IsAssigned(h) =>
             LET s == wavelet_services[h]
                 N == s.num_coeffs
             IN \A i \in 0 .. (N - 1) :
                   s.h1[i] = ParitySign(N, i) * s.h0[N - 1 - i]

\* C17: whenever lagrange_halfband accepts m >= 1, the N = 4m-1 taps it
\* leaves are symmetric, h0[i] = h0[N-1-i], and the centre tap h0[2m-1] is 0.5.
C17_SymmetricHalfband ==
    (lag.n > 0 /\ lag.m >= 1 /\ lag.result = LAGRANGE_OK) =>
       LET N == 4 * lag.m - 1
       IN /\ \A i \in 0 .. (N - 1) : lag.h0[i] = lag.h0[N - 1 - i]
          /\ 2 * lag.h0[2 * lag.m - 1] = ONE

\* m = LAGRANGE_M was accepted on a buffer of stale content, outer taps set
C17_Witness ==
    /\ lag.n > 0
    /\ lag.m = LAGRANGE_M
    /\ lag.result = LAGRANGE_OK
    /\ \A k \in LagrangeCells : lag.before[k] = ONE
    /\ lag.h0[0] # 0
    /\ lag.h0[0] = lag.h0[4 * LAGRANGE_M - 2]

\* C18: lagrange_halfband called with m < 1 or with a NULL buffer returns
\* LAGRANGE_KO and leaves the buffer as it was or all zeroes, never partially
\* written.
C18_RejectedHalfband ==
    (lag.n > 0 /\ (lag.m < 1 \/ lag.before = NullArray)) =>
       /\ lag.result = LAGRANGE_KO
       /\ \/ lag.h0 = lag.before
          \/ /\ lag.h0 # NullArray
             /\ \A k \in DOMAIN lag.h0 : lag.h0[k] = 0

\* m = 0 was rejected on a buffer that held the taps of an earlier call
C18_Witness ==
    /\ lag.n > 1
    /\ lag.m < 1
    /\ lag.before # NullArray
    /\ lag.result = LAGRANGE_KO
    /\ \E k \in LagrangeCells : lag.before[k] # 0 /\ lag.before[k] # ONE
    /\ lag.h0 = lag.before

\* the sample written k calls before the latest, 0 before the first
FirSample(k) ==
    LET n == Len(fir.x)
    IN IF n - k >= 1 THEN fir.x[n - k] ELSE 0

\* coef[k] * x[n-k] summed over k = from .. N-1
RECURSIVE FirWindowSum(_, _)
FirWindowSum(from, N) ==
    IF from >= N THEN 0
    ELSE FMul(fir.mem[fir.objeto.pcoef][from], FirSample(from))
            + FirWindowSum(from + 1, N)

\* C19: the n-th fir_filter call since Get_Fir returns the sum over k in
\* [0, N) of coef[k] * x[n-k], x[n-k] being the sample written k calls
\* earlier and 0 before the first: coefficient 0 multiplies the newest sample.
C19_FirOutput ==
    (fir.created /\ Len(fir.x) > 0) =>
       fir.y = FirWindowSum(0, fir.objeto.ncoef)

\* the window has slid past the first sample and holds different samples
C19_Witness ==
    /\ fir.created
    /\ fir.objeto.ncoef = 3
    /\ Len(fir.x) = 5
    /\ fir.x[1] = 3 * ONE
    /\ FirSample(0) = ONE
    /\ FirSample(1) = 3 * ONE
    /\ FirSample(2) = 0
    /\ fir.mem[<<"coef", 0>>][0] = ONE
    /\ fir.y = 7 * ONE

\* C20: each fir_filter call writes xn at the write cursor and advances the
\* cursor by one with wraparound: after n calls since Get_Fir the cursor is
\* at cell n mod ncoef, and the n-th sample is in cell (n-1) mod ncoef.
C20_WriteCursor ==
    fir.created =>
       LET n == Len(fir.x)
           N == fir.objeto.ncoef
       IN /\ fir.objeto.p_write = n % N
          /\ n > 0 => /\ fir.written = (n - 1) % N
                      /\ fir.mem[fir.objeto.pz][fir.written] = fir.x[n]

\* the cursor has wrapped and stands inside the array again
C20_Witness ==
    /\ fir.created
    /\ fir.objeto.ncoef = 3
    /\ Len(fir.x) = 5
    /\ fir.objeto.p_write = 2
    /\ fir.written = 1
    /\ fir.x[5] = 3 * ONE

\* C21: Get_Fir(ncoef, pcoef, pz) with ncoef <= MAX_FIR_LENGTH zero-fills
\* pz[0 .. ncoef-1] and returns an object that holds ncoef, pcoef and pz as
\* given and whose write cursor is at pz[0].
C21_GetFir ==
    [][\A i \in Instances, ncoef \in BankCoefInputs :
         (ncoef <= MAX_FIR_LENGTH /\ BankGet(i, ncoef)) =>
            /\ bank'.objs[i].ncoef = ncoef
            /\ bank'.objs[i].pcoef = <<"coef", 0>>
            /\ bank'.objs[i].pz = <<"z", i>>
            /\ bank'.objs[i].p_write = 0
            /\ \A k \in 0 .. (ncoef - 1) : bank'.mem[<<"z", i>>][k] = 0
            /\ bank'.mem[<<"coef", 0>>] = bank.mem[<<"coef", 0>>]]_vars

\* an object created again over a delay line that held samples, shorter than
\* the array: the cells past ncoef keep what they held
C21_Witness ==
    /\ bank.last.fn = "get_fir"
    /\ bank.last.ncoef = 2
    /\ bank.n > 2
    /\ LET z == bank.mem[<<"z", bank.last.who>>]
       IN z[0] = 0 /\ z[1] = 0 /\ z[2] # 0
    /\ bank.objs[bank.last.who].p_write = 0

\* the object Get_Fir returns for arguments it accepts
FirInstance(ncoef, pcoef, pz) ==
    [ncoef |-> ncoef, pcoef |-> pcoef, pz |-> pz, p_write |-> 0]

\* C22 as claimed: Get_Fir(ncoef, pcoef, pz) with ncoef > MAX_FIR_LENGTH
\* fails: what it returns is a sentinel, not the filter instance it returns
\* for arguments it accepts.
C22_OversizedGetFirFails ==
    [][\A i \in Instances, ncoef \in BankCoefInputs :
         (ncoef > MAX_FIR_LENGTH /\ BankGet(i, ncoef)) =>
            bank'.objs[i] # FirInstance(ncoef, <<"coef", 0>>, <<"z", i>>)]_vars

\* C23: fir_filter(xn, pfir) returns 0.0 when pfir is NULL or when the
\* object's ncoef exceeds MAX_FIR_LENGTH at the time of the call, and then
\* changes neither a delay line nor a write cursor.
C23_RejectedFilter ==
    [][\A who \in Instances \cup {0 - 1}, xn \in FirSampleInputs :
         (/\ who = 0 - 1 \/ bank.objs[who].ncoef > MAX_FIR_LENGTH
          /\ BankFilter(who, xn)) =>
            /\ bank'.last.y = 0
            /\ bank'.mem = bank.mem
            /\ bank'.objs = bank.objs]_vars

\* a filter that ran, had its ncoef forced past the maximum and was called
\* again: its delay line still holds the sample, its cursor has moved on
C23_Witness ==
    /\ bank.last.fn = "fir_filter"
    /\ bank.last.who # 0 - 1
    /\ bank.last.ncoef > MAX_FIR_LENGTH
    /\ bank.last.y = 0
    /\ bank.objs[bank.last.who].p_write = 1
    /\ bank.mem[bank.objs[bank.last.who].pz][0] = 3 * ONE

C25_FailedInfoReset ==
    [][(/\ call'.fn \in {"get_info", "reset"}
        /\ \/ call'.handle < 0
           \/ call'.handle >= MAX_WAVELET_SERVICES
           \/ ~IsAssigned(call'.handle)) =>
          /\ ret' = WAVELET_DECIM_KO
          /\ wavelet_services' = wavelet_services
          /\ info' = info
          /\ output' = output]_vars

\* get_info on a Free slot beside a live pipeline, the caller's variables
\* holding the answer of an earlier call
C25_Witness ==
    /\ call.fn = "get_info"
    /\ call.handle \in Slots
    /\ ~IsAssigned(call.handle)
    /\ ret = WAVELET_DECIM_KO
    /\ \E h \in Slots : IsAssigned(h)
    /\ info.type # "none"

\* the coefficient count of a configuration: 4m-1 for Lagrange, 4 and 8 for
\* the Daubechies filters
CoeffCount(type, m) ==
    IF type = "WAVELET_LAGRANGE" THEN 4 * m - 1
    ELSE IF type = "WAVELET_DB4" THEN 4 ELSE 8

\* C26: for an Assigned handle get_info reports the filter type and level
\* count given at subscribe and the coefficient count 4m-1 (odd) for
\* Lagrange(m), 4 for DB4, 8 for DB8; the three values stay as subscribe set
\* them while the handle stays Assigned.
C26_InfoReports ==
    [][/\ (call'.fn = "suscribe" /\ ret' # 0 - 1) =>
            \A a \in ValidSuscribeInputs :
               SuscribeCall(a[1], a[2], a[3]) =>
                  /\ wavelet_services'[ret'].filter = a[1]
                  /\ wavelet_services'[ret'].num_levels = a[3]
                  /\ wavelet_services'[ret'].num_coeffs = CoeffCount(a[1], a[2])
                  /\ wavelet_services'[ret'].num_coeffs % 2 = 1
                        <=> a[1] = "WAVELET_LAGRANGE"
       /\ \A h \in Slots :
            (IsAssigned(h) /\ wavelet_services'[h].status = "WD_ASIGNED") =>
               /\ wavelet_services'[h].filter = wavelet_services[h].filter
               /\ wavelet_services'[h].num_levels = wavelet_services[h].num_levels
               /\ wavelet_services'[h].num_coeffs = wavelet_services[h].num_coeffs
       /\ (call'.fn = "get_info" /\ ret' = WAVELET_DECIM_OK) =>
            \A n \in InfoNullInputs :
               GetInfoCall(call'.handle, n) =>
                  /\ ~n[1] => info'.type = wavelet_services[call'.handle].filter
                  /\ ~n[2] => info'.levels
                                 = wavelet_services[call'.handle].num_levels
                  /\ ~n[3] => info'.num_coeffs
                                 = wavelet_services[call'.handle].num_coeffs]_vars

\* get_info on a DB8 pipeline that has processed a sample
C26_Witness ==
    /\ call.fn = "get_info"
    /\ ret = WAVELET_DECIM_OK
    /\ info = [type |-> "WAVELET_DB8", levels |-> 2, num_coeffs |-> 8]
    /\ wavelet_services[call.handle].levels[0].lowpass_buffer.write_index = 1

\* every argument triple the iteration count of subscribe is taken on
IterationSuscribeInputs ==
    SuscribeInputs
    \cup ({"WAVELET_LAGRANGE"} \X (1 .. LAGRANGE_M_MAX)
                               \X (1 .. MAX_DECOMP_LEVELS))

SuscribeBound ==
    MAX_WAVELET_SERVICES
    + Initialize_Wavelet_Coeffs_iterations("WAVELET_LAGRANGE", LAGRANGE_M_MAX)
    + MAX_DECOMP_LEVELS * (1 + MAX_FILTER_ORDER)

UnsuscribeBound ==
    MAX_FILTER_ORDER + MAX_DECOMP_LEVELS * (1 + MAX_FILTER_ORDER)

ProcessBound ==
    MAX_DECOMP_LEVELS + MAX_DECOMP_LEVELS * (1 + 2 * MAX_FILTER_ORDER)

RtAssigned == {i \in RtServices : rt.servicios[i].status = "ASIGNED"}

\* C28: counting the subscribe calls made in a row since every slot was FREE,
\* each of the first MAX_RT_MOMENTOS returns the id of a slot that is then
\* ASIGNED with its four moving-average buffers and four moments zero, a slot
\* none of the earlier ones returned, and the one after them returns NONE.
C28_SuscribeStreak ==
    (rt.last.fn = "suscribe" /\ rt.streak >= 1) =>
        IF rt.streak <= MAX_RT_MOMENTOS
        THEN /\ rt.last.result \in RtServices
             /\ LET s == rt.servicios[rt.last.result]
                IN /\ s.status = "ASIGNED"
                   /\ \A i \in RtCells :
                         /\ s.z_buffers.mu_z.buffer_z[i] = 0
                         /\ s.z_buffers.sigma2_z.buffer_z[i] = 0
                         /\ s.z_buffers.a_z.buffer_z[i] = 0
                         /\ s.z_buffers.c_z.buffer_z[i] = 0
                   /\ s.mu = 0 /\ s.var2 = 0 /\ s.A = 0 /\ s.C = 0
             /\ Cardinality(RtAssigned) = rt.streak
        ELSE /\ rt.last.result = NONE
             /\ RtAssigned = RtServices

\* the services were used and released before; the table then fills and the
\* call after the last slot is refused
C28_Witness ==
    /\ rt.last.fn = "suscribe"
    /\ rt.streak = MAX_RT_MOMENTOS + 1
    /\ rt.last.result = NONE
    /\ rt.n > MAX_RT_MOMENTOS + 1
    /\ \E i \in RtServices : rt.objects[i].media # 0

\* C29: an unsubscribe or a compute whose id is negative, is MAX_RT_MOMENTOS
\* or more, or names a slot that is not ASIGNED returns RT_MOMENTOS_KO and
\* leaves the table of services, the simplified view and the cursor of
\* subscribe as they were.
C29_RejectedService ==
    [][LET id == rt'.last.id
       IN (/\ rt'.last.fn \in {"unsuscribe", "compute"}
           /\ \/ id < 0
              \/ id >= MAX_RT_MOMENTOS
              \/ rt.servicios[id].status # "ASIGNED") =>
             /\ rt'.last.result = RT_MOMENTOS_KO
             /\ rt'.servicios = rt.servicios
             /\ rt'.objects = rt.objects
             /\ rt'.service = rt.service]_vars

\* an unsubscribe of a released id is refused beside a service that has
\* computed moments
C29_Witness ==
    /\ rt.last.fn = "unsuscribe"
    /\ rt.last.result = RT_MOMENTOS_KO
    /\ rt.last.id \in RtServices
    /\ rt.servicios[rt.last.id].status = "FREE"
    /\ rt.objects[rt.last.id].media # 0
    /\ \E i \in RtServices :
          rt.servicios[i].status = "ASIGNED" /\ rt.servicios[i].mu # 0

\* C30: when Init_RT_Momentos has returned, every one of the MAX_RT_MOMENTOS
\* slots is FREE.
C30_InitFrees ==
    rt.last.fn = "init" => \A i \in RtServices : rt.servicios[i].status = "FREE"

\* C31: a subscribe that succeeds returns a slot that was not Assigned when it
\* was called, leaves every slot that was Assigned as it was, and makes the
\* number of Assigned slots one more, never above MAX_WAVELET_SERVICES.
C31_NoDoubleAllocation ==
    [][(call'.fn = "suscribe" /\ ret' # 0 - 1) =>
         /\ ret' \in Slots
         /\ wavelet_services[ret'].status = "WD_FREE"
         /\ wavelet_services'[ret'].status = "WD_ASIGNED"
         /\ \A h \in Slots :
               IsAssigned(h) => wavelet_services'[h] = wavelet_services[h]
         /\ Cardinality({h \in Slots :
                            wavelet_services'[h].status = "WD_ASIGNED"})
               = Cardinality(Assigned) + 1
         /\ Cardinality(Assigned) + 1 <= MAX_WAVELET_SERVICES]_vars

\* slot 0 was released and is given out again while slot 1 holds a pipeline
\* that has processed samples
C31_Witness ==
    /\ call.fn = "suscribe" /\ ret = 0
    /\ ncalls >= 5
    /\ IsAssigned(1)
    /\ wavelet_services[1].levels[0].lowpass_buffer.write_index # 0

\* C32: after a process call that succeeded, a set detail_ready[i] has every
\* detail_ready[j] with j < i set, and no detail_ready[k] is set for a k that
\* is num_levels of the handle or more.
C32_NestedReadiness ==
    (call.fn = "process" /\ ret = WAVELET_DECIM_OK) =>
        \A i \in Levels :
            output.detail_ready[i] = 1 =>
                /\ i < wavelet_services[call.handle].num_levels
                /\ \A j \in 0 .. (i - 1) : output.detail_ready[j] = 1

\* a later sample of a two-level pipeline on which both levels give a detail
C32_Witness ==
    /\ call.fn = "process" /\ ret = WAVELET_DECIM_OK
    /\ ncalls >= 6
    /\ wavelet_services[call.handle].num_levels = 2
    /\ output.detail_ready[0] = 1
    /\ output.detail_ready[1] = 1

\* C33: the output of every successful process call on a handle equals the
\* output of the same call in a replay of the handle's calls since its
\* subscribe on a pool that has just been initialized, whatever pipeline held
\* the slot before and whatever it left there.
C33_StaleSlot ==
    [][(call'.fn = "process" /\ ret' = WAVELET_DECIM_OK) =>
          output' = solo'[call'.handle].out]_vars

\* a one-level pipeline gives a detail on the slot a two-level pipeline held
\* before: the second level still has the size and the write cursor that
\* pipeline left, and the first level was left a cursor the subscribe rewound
C33_Witness ==
    /\ call.fn = "process" /\ ret = WAVELET_DECIM_OK
    /\ wavelet_services[call.handle].num_levels = 1
    /\ wavelet_services[call.handle].levels[1].lowpass_buffer.write_index # 0
    /\ wavelet_services[call.handle].levels[1].lowpass_buffer.buffer_size
          # wavelet_services[call.handle].num_coeffs
    /\ output.detail_ready[0] = 1
    /\ output.detail[0] # 0

\* C34: a reset that succeeds leaves the slot Assigned with its filter type,
\* level count, coefficient count and coefficients as they were, and from then
\* on the output of every successful process call equals the output of the
\* same call on a pipeline just subscribed with that configuration and fed the
\* samples given since the reset.
C34_ResetIsFresh ==
    [][/\ (call'.fn = "reset" /\ ret' = WAVELET_DECIM_OK) =>
             LET old == wavelet_services[call'.handle]
                 new == wavelet_services'[call'.handle]
             IN /\ new.status = "WD_ASIGNED"
                /\ new.filter = old.filter
                /\ new.num_levels = old.num_levels
                /\ new.num_coeffs = old.num_coeffs
                /\ new.h0 = old.h0
                /\ new.h1 = old.h1
       /\ (call'.fn = "process" /\ ret' = WAVELET_DECIM_OK) =>
             output' = solo'[call'.handle].out]_vars

\* the second sample after a reset of a two-level pipeline that had been fed
\* three samples: the first level is on the odd sample of its pair
C34_Witness ==
    /\ call.fn = "process" /\ ret = WAVELET_DECIM_OK
    /\ ncalls >= 7
    /\ Len(hist[call.handle]) = 2
    /\ wavelet_services[call.handle].num_levels = 2
    /\ wavelet_services[call.handle].levels[0].sample_counter = 0
    /\ wavelet_services[call.handle].levels[1].sample_counter = 1
    /\ output.detail_ready[0] = 0

\* C35: a fir_filter call on an object made by Get_Fir with
\* ncoef <= MAX_FIR_LENGTH writes and reads delay-line cells within
\* 0 .. ncoef-1 only, reads coefficients within 0 .. ncoef-1 only, and leaves
\* the write cursor within 0 .. ncoef-1.
C35_FirInBounds ==
    [][(bank'.last.fn = "fir_filter" /\ bank'.n = bank.n + 1) =>
          LET pfir == bank.objs[bank'.last.who]
              a == FirAccesses(pfir)
              cells == 0 .. (pfir.ncoef - 1)
          IN pfir.ncoef <= MAX_FIR_LENGTH =>
                /\ a.write \subseteq cells
                /\ a.reads \subseteq cells
                /\ a.coefs \subseteq cells
                /\ bank'.objs[bank'.last.who].p_write \in cells]_vars

\* the same for objects of one coefficient or more
C35_FirInBoundsFromOne ==
    [][(bank'.last.fn = "fir_filter" /\ bank'.n = bank.n + 1) =>
          LET pfir == bank.objs[bank'.last.who]
              a == FirAccesses(pfir)
              cells == 0 .. (pfir.ncoef - 1)
          IN (1 <= pfir.ncoef /\ pfir.ncoef <= MAX_FIR_LENGTH) =>
                /\ a.write \subseteq cells
                /\ a.reads \subseteq cells
                /\ a.coefs \subseteq cells
                /\ bank'.objs[bank'.last.who].p_write \in cells]_vars

\* the cursor of an object of three coefficients has gone round
C35_Witness ==
    /\ bank.last.fn = "fir_filter"
    /\ bank.objs[bank.last.who].ncoef = MaxFirCoef
    /\ bank.objs[bank.last.who].p_write = 0
    /\ bank.mem[bank.objs[bank.last.who].pz][MaxFirCoef - 1] # 0

\* C36: Suscribe_RT_Momentos ends after looking at 1 .. MAX_RT_MOMENTOS
\* slots; wherever earlier calls left its cursor, it returns a slot that was
\* FREE (now ASIGNED) when some slot is FREE, and NONE only when every slot
\* is ASIGNED.
C36_FindsFreeService ==
    [][rt'.last.fn = "suscribe" =>
          /\ rt'.last.checked \in 1 .. MAX_RT_MOMENTOS
          /\ rt.service \in RtServices
          /\ IF \E i \in RtServices : rt.servicios[i].status = "FREE"
             THEN /\ rt'.last.result \in RtServices
                  /\ rt.servicios[rt'.last.result].status = "FREE"
                  /\ rt'.servicios[rt'.last.result].status = "ASIGNED"
             ELSE /\ rt'.last.result = NONE
                  /\ rt'.servicios = rt.servicios]_vars

\* the only FREE slot was the one behind the cursor: the scan went round the
\* whole table and took it at its last look
C36_Witness ==
    /\ rt.last.fn = "suscribe"
    /\ rt.last.checked = MAX_RT_MOMENTOS
    /\ rt.last.result = 0
    /\ rt.service = 1
    /\ RtAssigned = RtServices
    /\ rt.n >= 4

\* C37: a get_ann call of one caller leaves, for every service returned
\* earlier to another caller, the weight and bias matrices that iterate_ann
\* reads for that service as they were.
C37_AnnIndependent ==
    [][(ann'.last.fn = "get_ann" /\ ann'.n = ann.n + 1) =>
          \A k \in AnnNets \ {ann'.last.who} :
             (ann.made[k] /\ ann.services[k].net.levels > 0) =>
                LayersUsed(ann'.services[k], ann'.layer_buffer)
                   = LayersUsed(ann.services[k], ann.layer_buffer)]_vars

\* what a caller that is alone gets from iterate_ann: the layers are those of
\* its own arrays
OwnLayerBuffer(k) ==
    [i \in AnnLayers |-> [pesos |-> <<"pesos", k, i>>, bias |-> <<"bias", k, i>>]]

\* the same seen from the caller: iterate_ann on a service returns what it
\* returns with the layers the service was made from
C37_IterateOwnLayers ==
    [][(ann'.last.fn = "iterate_ann" /\ ann'.n = ann.n + 1) =>
          LET k == ann'.last.who
              own == iterate_ann(ann.services[k], OwnLayerBuffer(k), ann'.x[k],
                                 ann.y[k], ann.temp_buffer1, ann.temp_buffer2)
          IN ann.services[k].net.levels > 0 =>
                /\ ann'.last.result = own.result
                /\ ann'.y[k] = own.y]_vars

\* C38: for every m in 1 .. 16 and every turn l in 1 .. m of the loop of
\* lagrange_halfband, factorial(m - l) and factorial(m - 1 + l) are (m - l)!
\* and (m - 1 + l)!: no product has wrapped round the unsigned long.
C38_FactorialExact ==
    fact.m >= 1 =>
        /\ Widen(fact.fact_m_minus_l) = ExactFactorial(fact.m - fact.l)
        /\ Widen(fact.fact_m_plus_l_minus_1) = ExactFactorial(fact.m - 1 + fact.l)

\* the same for m in 1 .. 10, whose arguments go up to 19: 20! is the last
\* factorial below 2^64
C38_FactorialExactTo10 ==
    (fact.m >= 1 /\ fact.m <= 10) =>
        /\ Widen(fact.fact_m_minus_l) = ExactFactorial(fact.m - fact.l)
        /\ Widen(fact.fact_m_plus_l_minus_1) = ExactFactorial(fact.m - 1 + fact.l)

\* the limbs agree with the integer factorial where that one fits
C38_LimbsAreFactorial ==
    (fact.m >= 1 /\ fact.m - 1 + fact.l <= 12) =>
        /\ ValueFrom(fact.fact_m_plus_l_minus_1, 1) = factorial(fact.m - 1 + fact.l)
        /\ ValueFrom(fact.fact_m_minus_l, 1) = factorial(fact.m - fact.l)

\* 31! has not lost a carry on the wide limbs: its highest limb is empty
C38_WideIsWide ==
    ExactFactorial(2 * LAGRANGE_M_MAX - 1)[WideLimbs] = 0

C38_Witness10 ==
    /\ fact.m = 10
    /\ fact.l = 10
    /\ fact.fact_m_plus_l_minus_1[ULongLimbs] # 0

\* C39: between calls, every level i < num_levels of every Assigned slot has
\* sample_counter 0 or 1 and, in both delay lines, buffer_size = num_coeffs,
\* at least 1, and 0 <= write_index < buffer_size.
C39_LevelInvariant ==
    \A h \in Slots :
       IsAssigned(h) =>
          LET s == wavelet_services[h]
          IN /\ s.num_coeffs >= 1
             /\ \A i \in Levels :
                   i < s.num_levels =>
                      /\ s.levels[i].sample_counter \in {0, 1}
                      /\ \A b \in {s.levels[i].lowpass_buffer,
                                   s.levels[i].highpass_buffer} :
                            /\ b.buffer_size = s.num_coeffs
                            /\ b.write_index >= 0
                            /\ b.write_index < b.buffer_size

\* a pipeline of the most levels after an odd number of samples: the cursor
\* of level 0 has gone round to 0 and the last level has been written
C39_Witness ==
    \E h \in Slots :
       /\ IsAssigned(h)
       /\ wavelet_services[h].num_levels = MAX_DECOMP_LEVELS
       /\ wavelet_services[h].levels[MAX_DECOMP_LEVELS - 1].lowpass_buffer.write_index # 0
       /\ wavelet_services[h].levels[0].sample_counter = 1
       /\ wavelet_services[h].levels[0].lowpass_buffer.write_index = 0
       /\ wavelet_services[h].levels[0].lowpass_buffer.buffer[0] # 0
       /\ call.fn = "process"

\* C40: after Get_DWT and after every Dwt call, at every level i,
\* enabler[i] <= 2^i - 1 and decimator[i] <= 2^(i+1) - 1, decimator[i] is 0
\* only when enabler[i] is 0, and so no decrement of the two unsigned
\* counters has wrapped below 0.
C40_CountersBounded ==
    \A i \in DwtLevels :
       /\ dwt.enabler[i] >= 0
       /\ dwt.enabler[i] <= 2 ^ i - 1
       /\ dwt.decimator[i] >= 0
       /\ dwt.decimator[i] <= 2 ^ (i + 1) - 1
       /\ (dwt.decimator[i] = 0 => dwt.enabler[i] = 0)

\* no decrement of a Dwt call starts from 0: a counter the call has not
\* reloaded comes out one lower than it went in
C40_NoWrap ==
    [][dwt_obs'.n = dwt_obs.n + 1 =>
          \A i \in DwtLevels :
             /\ (~dwt_obs'.ran[i]) =>
                   /\ dwt.enabler[i] >= 1
                   /\ dwt'.enabler[i] = dwt.enabler[i] - 1
             /\ (~dwt_obs'.commit[i]) =>
                   /\ dwt.decimator[i] >= 1
                   /\ dwt'.decimator[i] = dwt.decimator[i] - 1
             /\ dwt_obs'.ran[i] => dwt'.enabler[i] = 2 ^ i - 1
             /\ dwt_obs'.commit[i] => dwt'.decimator[i] = 2 ^ (i + 1) - 1]_vars

\* the second level has committed for the second time: both its counters
\* are at their highest
C40_Witness ==
    /\ dwt_obs.n >= 5
    /\ dwt_obs.commit[1]
    /\ dwt.decimator[1] = 2 ^ 2 - 1
    /\ dwt.enabler[1] = 2 ^ 1 - 1
    /\ dwt.decimator[0] = 1

====
